---- MODULE Spec2Model ----
(***************************************************************************)
(* Data Empire: the tick engine (src/src/game/engine.ts), its formula      *)
(* library (formulas.ts, kept in src/unnamed/part_005), the balance        *)
(* constants (kept in src/src/types/event.ts from line 160 on) and the     *)
(* game store that drives them (src/src/store/gameStore.ts).               *)
(*                                                                         *)
(* Numbers.  JavaScript numbers are modelled exactly:                      *)
(*   - a metric (T, A, C), a staff metric bonus, an incident impact and    *)
(*     a decay rate are integers counting hundredths of a point, so        *)
(*     100 points is 10000 and the decay 0.1 is 10;                        *)
(*   - an SLA is an integer counting thousandths of a point, which is      *)
(*     what 0.4*T + 0.4*A + 0.2*C needs to stay exact (4T + 4A + 2C);      *)
(*   - multipliers, probabilities, incident progress and the currency a    *)
(*     tick generates are rationals <<n, d>> in lowest terms with d > 0;   *)
(*   - an accumulated currency amount (dc, lifetimeDC, the total of an     *)
(*     offline catch-up) is a record [whole, frac]: the integer part and   *)
(*     the fractional part, a rational in [0, 1).                          *)
(* Where the rounding of doubles decides the outcome (the progress of an   *)
(* incident over many ticks), the model computes in IEEE 754 doubles; see  *)
(* the section on double arithmetic and ResolveSpec.                       *)
(***************************************************************************)
EXTENDS Integers, Sequences, FiniteSets, TLC

VARIABLES
    dc,                     \* gameStore: currency balance (an amount)
    lifetimeDC,             \* gameStore: total currency earned (an amount)
    prestigeLevel,          \* gameStore: prestige level
    datasets,               \* gameStore: Dataset[]
    staff,                  \* gameStore: Staff[]
    activeIncidents,        \* gameStore: Incident[]
    currentEvent,           \* gameStore: Event | null
    offlineProgressApplied, \* gameStore: boolean
    purchasedPipelines,     \* gameStore: string[]
    unlockedTechnologies,   \* gameStore: string[]
    lastTickTime,           \* gameStore: the Date.now() of the latest tick
    input,                  \* the snapshot handed to the latest engine call
    result,                 \* what the latest engine call returned
    secondsElapsed,         \* the argument of the latest offline catch-up
    offline,                \* what the latest offline catch-up returned
    lastOp,                 \* the operation that produced this state
    calls,                  \* number of operations made so far
    idCounter,              \* source of the generated incident identifiers
    hook,                   \* useGameTick: its refs, its state and the timers
    ui,                     \* uiStore: the notifications and the pending timeouts
    exported,               \* the text the latest exportSave returned
    sim                     \* incidents advanced in doubles, and the ticks so far

vars == <<dc, lifetimeDC, prestigeLevel, datasets, staff, activeIncidents,
          currentEvent, offlineProgressApplied, purchasedPipelines,
          unlockedTechnologies, lastTickTime, input, result, secondsElapsed,
          offline, lastOp, calls, idCounter, hook, ui, exported, sim>>

\* JavaScript's null, where an Event record is expected
NULL == [id |-> "null"]

-----------------------------------------------------------------------------
(* Bounds of the model *)

\* engine calls / store ticks explored from every initial state
MaxTicks == 2
\* incidents that may be active at once (the spawn roll is cut off above it)
MaxIncidents == 2

-----------------------------------------------------------------------------
(* Exact arithmetic *)

Abs(x) == IF x < 0 THEN -x ELSE x
Min(a, b) == IF a < b THEN a ELSE b
Max(a, b) == IF a > b THEN a ELSE b

RECURSIVE GCD(_, _)
GCD(a, b) == IF b = 0 THEN a ELSE GCD(b, a % b)

\* the rational n/d (d > 0) in lowest terms
Rat(n, d) == LET g == GCD(Abs(n), d) IN <<n \div g, d \div g>>

RInt(k) == <<k, 1>>

RAdd(a, b) ==
    LET g == GCD(a[2], b[2])
        l == (a[2] \div g) * b[2]
    IN  Rat(a[1] * (l \div a[2]) + b[1] * (l \div b[2]), l)

\* product with cross-cancellation, so that no intermediate value is larger
\* than the result
RMul(a, b) ==
    LET g1 == GCD(Abs(a[1]), b[2])
        g2 == GCD(Abs(b[1]), a[2])
    IN  IF a[1] = 0 \/ b[1] = 0 THEN <<0, 1>>
        ELSE <<(a[1] \div g1) * (b[1] \div g2), (a[2] \div g2) * (b[2] \div g1)>>

\* a < b for rationals >= 0, by comparing the continued fractions of a and b
\* (no product of a numerator and a denominator is formed)
RECURSIVE FracLess(_, _, _, _)
FracLess(a, b, c, d) ==
    LET q1 == a \div b
        q2 == c \div d
        r1 == a % b
        r2 == c % d
    IN  IF q1 # q2 THEN q1 < q2
        ELSE IF r2 = 0 THEN FALSE
        ELSE IF r1 = 0 THEN TRUE
        ELSE FracLess(d, r2, b, r1)

RLess(a, b) == FracLess(a[1], a[2], b[1], b[2])
RLeq(a, b) == ~RLess(b, a)
RMax(a, b) == IF RLess(a, b) THEN b ELSE a
RMin(a, b) == IF RLess(b, a) THEN b ELSE a

\* Math.floor of a rational, and what is left above it
RFloor(a) == a[1] \div a[2]
RFrac(a) == Rat(a[1] % a[2], a[2])

\* currency amounts: the amount of an integer, and an amount plus a rational
AInt(k) == [whole |-> k, frac |-> <<0, 1>>]
AAdd(amount, r) ==
    LET f == RAdd(amount.frac, RFrac(r))
    IN  [whole |-> amount.whole + RFloor(r) + RFloor(f), frac |-> RFrac(f)]
\* Math.floor of an amount, and amount >= k for an integer k
AFloor(amount) == amount.whole
AGeq(amount, k) == amount.whole >= k

\* an array built element by element, as the sequence of its elements
Array(f) == f \o <<>>

\* the sum and the product of a sequence of rationals, left to right
RECURSIVE RSum(_)
RSum(s) == IF s = <<>> THEN <<0, 1>> ELSE RAdd(RSum(SubSeq(s, 1, Len(s) - 1)), s[Len(s)])

RECURSIVE RProd(_)
RProd(s) == IF s = <<>> THEN <<1, 1>> ELSE RMul(RProd(SubSeq(s, 1, Len(s) - 1)), s[Len(s)])

RECURSIVE ISum(_)
ISum(s) == IF s = <<>> THEN 0 ELSE ISum(SubSeq(s, 1, Len(s) - 1)) + s[Len(s)]

-----------------------------------------------------------------------------
(* Balance constants (balance.ts) *)

\* BASE_DECAY_RATE = 0.1 point per tick, in hundredths of a point
BASE_DECAY_RATE == 10

\* the floor of the effective decay rate, 0.01, written inline in processTick
MIN_EFFECTIVE_DECAY == 1

\* INCIDENT.RESOLUTION_TIME and INCIDENT.IMPACT, as used by createIncident
RESOLUTION_TIME_MINOR == 30
RESOLUTION_TIME_MODERATE == 60
RESOLUTION_TIME_MAJOR == 120
IMPACT_MINOR == [T |-> -500, A |-> -500, C |-> -500]
IMPACT_MODERATE == [T |-> -1500, A |-> -1500, C |-> -1000]
IMPACT_MAJOR == [T |-> -3000, A |-> -3000, C |-> -2000]

\* calculateOfflineProgress: the 24 hour cap and the batch size
MAX_OFFLINE_SECONDS == 86400
BATCH_SIZE == 60
\* OFFLINE_EFFICIENCY = 0.5
OFFLINE_EFFICIENCY == <<1, 2>>

\* PRESTIGE.SLA_BONUS_PER_LEVEL = 5 points, in hundredths of a point
PRESTIGE_BONUS_PER_LEVEL == 500

\* SAVE.VERSION
SAVE_VERSION == 1

\* the gates of canPrestige: 10 datasets, a global SLA of 95 (in
\* thousandths), a lifetime DC of 2,000,000
MIN_DATASETS == 10
MIN_GLOBAL_SLA == 95000
MIN_LIFETIME_DC == 2000000

-----------------------------------------------------------------------------
(* Formula library (formulas.ts) *)

\* calculateSLA without the clamp
calculateSLA_unclamped(metrics) == 4 * metrics.T + 4 * metrics.A + 2 * metrics.C

\* calculateSLA: T*0.4 + A*0.4 + C*0.2 clamped to 0..100, in thousandths
calculateSLA(metrics) ==
    LET sla == 4 * metrics.T + 4 * metrics.A + 2 * metrics.C
    IN  Max(0, Min(100000, sla))

\* calculateDatasetDC: base_dc * (SLA / 100) * globalMultipliers / 60
calculateDatasetDC(dataset, globalMultipliers) ==
    LET sla == calculateSLA(dataset.current_metrics)
        baseDC == dataset.base_dc
        efficiency == Rat(sla, 100000)
    IN  RMul(RMul(RMul(RInt(baseDC), efficiency), globalMultipliers), <<1, 60>>)

\* calculateStaffMultiplier: the product of every dc_generation_bonus
calculateStaffMultiplier(staffList) ==
    RProd([i \in 1..Len(staffList) |-> staffList[i].effects.dc_generation_bonus])

\* calculateTotalDC: the sum of calculateDatasetDC over the datasets
calculateTotalDC(datasetList, staffList) ==
    LET staffMultiplier == calculateStaffMultiplier(staffList)
    IN  RSum([i \in 1..Len(datasetList) |->
                calculateDatasetDC(datasetList[i], staffMultiplier)])

\* applyMetricDecay without the floor at 0
applyMetricDecay_unfloored(dataset, decayRate) ==
    [dataset EXCEPT !.current_metrics =
        [T |-> dataset.current_metrics.T - decayRate,
         A |-> dataset.current_metrics.A - decayRate,
         C |-> dataset.current_metrics.C - decayRate]]

\* applyMetricDecay: every metric minus decayRate, floored at 0
applyMetricDecay(dataset, decayRate) ==
    [dataset EXCEPT !.current_metrics =
        [T |-> Max(0, dataset.current_metrics.T - decayRate),
         A |-> Max(0, dataset.current_metrics.A - decayRate),
         C |-> Max(0, dataset.current_metrics.C - decayRate)]]

\* applyStaffBonuses: the summed staff bonuses added, capped at 100
applyStaffBonuses(dataset, staffList) ==
    LET totalBonus ==
            [T |-> ISum([i \in 1..Len(staffList) |-> staffList[i].effects.global_T_bonus]),
             A |-> ISum([i \in 1..Len(staffList) |-> staffList[i].effects.global_A_bonus]),
             C |-> ISum([i \in 1..Len(staffList) |-> staffList[i].effects.global_C_bonus])]
    IN  [dataset EXCEPT !.current_metrics =
            [T |-> Min(10000, dataset.current_metrics.T + totalBonus.T),
             A |-> Min(10000, dataset.current_metrics.A + totalBonus.A),
             C |-> Min(10000, dataset.current_metrics.C + totalBonus.C)]]

\* calculateDatasetStatus asking for an SLA strictly above the target
calculateDatasetStatus_strict(dataset) ==
    LET sla == calculateSLA(dataset.current_metrics)
        target == calculateSLA(dataset.sla_targets)
    IN  IF sla > target THEN "ok"
        ELSE IF 10 * sla >= 8 * target THEN "warning"
        ELSE "failing"

\* calculateDatasetStatus: ok at or above the target SLA, warning at or above
\* 80% of it (sla >= target * 0.8 is 10 * sla >= 8 * target), else failing
calculateDatasetStatus(dataset) ==
    LET sla == calculateSLA(dataset.current_metrics)
        target == calculateSLA(dataset.sla_targets)
    IN  IF sla >= target THEN "ok"
        ELSE IF 10 * sla >= 8 * target THEN "warning"
        ELSE "failing"

\* the riskMultipliers table of calculateIncidentChance
riskMultipliers == [low |-> <<1, 1>>, medium |-> <<3, 2>>, high |-> <<2, 1>>]

\* calculateIncidentChance without the lower clamp
calculateIncidentChance_noFloor(dataset, baseChance) ==
    LET sla == calculateSLA(dataset.current_metrics)
        volumeFactor == Rat(1000 + dataset.volume, 1000)
        slaFactor == Rat(100000 - sla, 100000)
        riskMultiplier == riskMultipliers[dataset.risk_rating]
        chance == RMul(RMul(RMul(baseChance, volumeFactor), slaFactor), riskMultiplier)
    IN  RMin(<<1, 10>>, chance)

\* calculateIncidentChance: baseChance * volumeFactor * slaFactor *
\* riskMultiplier, clamped to 0.001..0.1
calculateIncidentChance(dataset, baseChance) ==
    LET sla == calculateSLA(dataset.current_metrics)
        volumeFactor == Rat(1000 + dataset.volume, 1000)
        slaFactor == Rat(100000 - sla, 100000)
        riskMultiplier == riskMultipliers[dataset.risk_rating]
        chance == RMul(RMul(RMul(baseChance, volumeFactor), slaFactor), riskMultiplier)
    IN  RMax(<<1, 1000>>, RMin(<<1, 10>>, chance))

\* the default of calculateIncidentChance's baseChance parameter, 0.003
DEFAULT_BASE_CHANCE == <<3, 1000>>

\* calculateGlobalSLA: the average of the dataset SLAs, 100 with no dataset;
\* a rational number of thousandths
calculateGlobalSLA(datasetList) ==
    IF Len(datasetList) = 0 THEN RInt(100000)
    ELSE LET totalSLA == ISum([i \in 1..Len(datasetList) |->
                                calculateSLA(datasetList[i].current_metrics)])
         IN  Rat(totalSLA, Len(datasetList))

\* canPrestige without the lifetime DC gate
canPrestige_ignoresDC(datasetList, lifetime) ==
    LET hasEnoughDatasets == Len(datasetList) >= MIN_DATASETS
        hasHighSLA == RLeq(RInt(MIN_GLOBAL_SLA), calculateGlobalSLA(datasetList))
    IN  hasEnoughDatasets /\ hasHighSLA

\* canPrestige, of the datasets and a lifetime DC amount
canPrestige(datasetList, lifetime) ==
    LET hasEnoughDatasets == Len(datasetList) >= MIN_DATASETS
        hasHighSLA == RLeq(RInt(MIN_GLOBAL_SLA), calculateGlobalSLA(datasetList))
        hasEnoughDC == AGeq(lifetime, MIN_LIFETIME_DC)
    IN  hasEnoughDatasets /\ hasHighSLA /\ hasEnoughDC

\* calculatePrestigeBonus: prestigeLevel * 5 points
calculatePrestigeBonus(level) == level * PRESTIGE_BONUS_PER_LEVEL

-----------------------------------------------------------------------------
(* Tick engine (engine.ts) *)

\* the decay rate without its 0.01 minimum
effectiveDecayRate_noFloor(dataset) ==
    LET decayReduction == Len(dataset.pipelines_installed) * 1
    IN  Max(0, BASE_DECAY_RATE - decayReduction)

\* processTick, step 1: Math.max(0.01, BASE_DECAY_RATE - 0.01 * installed)
effectiveDecayRate(dataset) ==
    LET decayReduction == Len(dataset.pipelines_installed) * 1
    IN  Max(MIN_EFFECTIVE_DECAY, BASE_DECAY_RATE - decayReduction)

\* step 1 with the staff bonuses added before the decay
decayAndBonus_bonusFirst(dataset, staffList) ==
    LET boosted == IF Len(staffList) > 0 THEN applyStaffBonuses(dataset, staffList)
                   ELSE dataset
    IN  applyMetricDecay(boosted, effectiveDecayRate(dataset))

\* processTick, step 1, the callback mapped over the datasets: decay, then
\* the staff bonuses when any staff is hired
decayAndBonus(dataset, staffList) ==
    LET decayed == applyMetricDecay(dataset, effectiveDecayRate(dataset))
    IN  IF Len(staffList) > 0 THEN applyStaffBonuses(decayed, staffList) ELSE decayed

\* processIncidents: the product of every incident_resolution_speed
resolutionSpeedMultiplier(staffList) ==
    RProd([i \in 1..Len(staffList) |-> staffList[i].effects.incident_resolution_speed])

\* the .map callback advancing at the base speed whatever the staff
advanceIncident_ignoresSpeed(incident, speed) ==
    LET progressPerTick == Rat(1, incident.base_resolution_time)
        newProgress == RAdd(incident.resolution_progress, progressPerTick)
    IN  [incident EXCEPT !.resolution_progress = newProgress]

\* processIncidents, the .map callback: progress + (1 / base_resolution_time) * speed
advanceIncident(incident, speed) ==
    LET progressPerTick == RMul(Rat(1, incident.base_resolution_time), speed)
        newProgress == RAdd(incident.resolution_progress, progressPerTick)
    IN  [incident EXCEPT !.resolution_progress = newProgress]

\* the .filter callback keeping an incident at exactly 1.0
stillActive_inclusive(incident) == RLeq(incident.resolution_progress, <<1, 1>>)

\* processIncidents, the .filter callback: resolution_progress < 1.0
stillActive(incident) == RLess(incident.resolution_progress, <<1, 1>>)

\* processIncidents returning the surviving incidents newest first
updateIncidents_newestFirst(incidents, staffList) ==
    LET speed == resolutionSpeedMultiplier(staffList)
        advanced == Array([i \in 1..Len(incidents) |->
                        advanceIncident(incidents[Len(incidents) + 1 - i], speed)])
    IN  SelectSeq(advanced, stillActive)

\* processIncidents: the incidents advanced by one tick, the resolved ones removed
updateIncidents(incidents, staffList) ==
    LET speed == resolutionSpeedMultiplier(staffList)
        advanced == Array([i \in 1..Len(incidents) |-> advanceIncident(incidents[i], speed)])
    IN  SelectSeq(advanced, stillActive)

\* the forEach applying the impact of the first affecting incident only
applyImpacts_firstOnly(metrics, affecting) ==
    IF affecting = <<>> THEN metrics
    ELSE LET incident == Head(affecting)
         IN  [T |-> Max(0, metrics.T + incident.metric_impact.T),
              A |-> Max(0, metrics.A + incident.metric_impact.A),
              C |-> Max(0, metrics.C + incident.metric_impact.C)]

\* processIncidents, the forEach over the affecting incidents: each impact is
\* added in list order and floored at 0
RECURSIVE applyImpacts(_, _)
applyImpacts(metrics, affecting) ==
    IF affecting = <<>> THEN metrics
    ELSE LET incident == Head(affecting)
         IN  applyImpacts(
                [T |-> Max(0, metrics.T + incident.metric_impact.T),
                 A |-> Max(0, metrics.A + incident.metric_impact.A),
                 C |-> Max(0, metrics.C + incident.metric_impact.C)],
                Tail(affecting))

\* processIncidents, the callback mapped over the datasets: the penalties of
\* the incidents of the given list that name this dataset
applyPenalties(dataset, penalising) ==
    LET Affects(incident) == incident.dataset_id = dataset.id
        affectingIncidents == SelectSeq(penalising, Affects)
    IN  IF Len(affectingIncidents) = 0 THEN dataset
        ELSE [dataset EXCEPT !.current_metrics =
                applyImpacts(dataset.current_metrics, affectingIncidents)]

\* processIncidents with the penalties of every advanced incident, the
\* resolved ones included
processIncidents_penalisesResolved(datasetList, incidents, staffList) ==
    LET speed == resolutionSpeedMultiplier(staffList)
        advanced == Array([i \in 1..Len(incidents) |-> advanceIncident(incidents[i], speed)])
    IN  [updatedDatasets |->
            Array([i \in 1..Len(datasetList) |-> applyPenalties(datasetList[i], advanced)]),
         updatedIncidents |-> SelectSeq(advanced, stillActive)]

\* processIncidents
processIncidents(datasetList, incidents, staffList) ==
    LET updatedIncidents == updateIncidents(incidents, staffList)
    IN  [updatedDatasets |->
            Array([i \in 1..Len(datasetList) |->
                        applyPenalties(datasetList[i], updatedIncidents)]),
         updatedIncidents |-> updatedIncidents]

\* createIncident: the incidentTypes table
incidentTypes ==
    << [type |-> "data-delay", impact |-> IMPACT_MINOR,
        resolutionTime |-> RESOLUTION_TIME_MINOR, haltsDC |-> FALSE],
       [type |-> "corrupted-batch", impact |-> IMPACT_MODERATE,
        resolutionTime |-> RESOLUTION_TIME_MODERATE, haltsDC |-> FALSE],
       [type |-> "pipeline-failure", impact |-> IMPACT_MAJOR,
        resolutionTime |-> RESOLUTION_TIME_MAJOR, haltsDC |-> TRUE] >>

\* createIncident starting the incident halfway resolved
createIncident_halfResolved(dataset, pick, id) ==
    LET template == incidentTypes[pick]
    IN  [id |-> id,
         type |-> template.type,
         dataset_id |-> dataset.id,
         metric_impact |-> template.impact,
         base_resolution_time |-> template.resolutionTime,
         resolution_progress |-> <<1, 2>>,
         halts_dc_generation |-> template.haltsDC]

\* createIncident, with the template index and the identifier it draws
createIncident(dataset, pick, id) ==
    LET template == incidentTypes[pick]
    IN  [id |-> id,
         type |-> template.type,
         dataset_id |-> dataset.id,
         metric_impact |-> template.impact,
         base_resolution_time |-> template.resolutionTime,
         resolution_progress |-> <<0, 1>>,
         halts_dc_generation |-> template.haltsDC]

\* step 4 refreshing the SLA only
refreshStatus_keepsStatus(dataset) ==
    [dataset EXCEPT !.currentSLA = calculateSLA(dataset.current_metrics)]

\* processTick, step 4: SLA and status refreshed from the current metrics
refreshStatus(dataset) ==
    [dataset EXCEPT !.currentSLA = calculateSLA(dataset.current_metrics),
                    !.status = calculateDatasetStatus(dataset)]

\* processTick, step 6, the forEach over the datasets: roll[i] is the
\* Math.random() drawn for dataset i, pick[i] the template drawn for it and
\* firstId the first identifier generated
RECURSIVE spawnIncidents(_, _, _, _, _)
spawnIncidents(datasetList, i, roll, pick, firstId) ==
    IF i > Len(datasetList) THEN <<>>
    ELSE LET incidentChance == calculateIncidentChance(datasetList[i], DEFAULT_BASE_CHANCE)
         IN  IF RLess(roll[i], incidentChance)
             THEN <<createIncident(datasetList[i], pick[i], firstId)>>
                    \o spawnIncidents(datasetList, i + 1, roll, pick, firstId + 1)
             ELSE spawnIncidents(datasetList, i + 1, roll, pick, firstId)

\* the paused path with the incidents still advancing
pausedTick_advances(state) ==
    [dcGenerated |-> <<0, 1>>,
     newIncidents |-> <<>>,
     newEvent |-> NULL,
     updatedDatasets |-> state.datasets,
     updatedIncidents |-> updateIncidents(state.activeIncidents, state.staff),
     afterDecay |-> state.datasets,
     snapshot |-> state]

\* processTick, the paused path (a current event is present).  snapshot is
\* the caller's state object as the call leaves it: the function assigns to
\* none of its properties, so it is the argument
pausedTick(state) ==
    [dcGenerated |-> <<0, 1>>,
     newIncidents |-> <<>>,
     newEvent |-> NULL,
     updatedDatasets |-> state.datasets,
     updatedIncidents |-> state.activeIncidents,
     afterDecay |-> state.datasets,
     snapshot |-> state]

\* processTick, steps 4 and 5: the datasets refreshed and the DC they generate
refreshAndGenerate(afterIncidents, staffList) ==
    LET refreshed ==
            Array([i \in 1..Len(afterIncidents) |-> refreshStatus(afterIncidents[i])])
    IN  [datasets |-> refreshed, dcGenerated |-> calculateTotalDC(refreshed, staffList)]

\* the active path with the spawned incidents returned among the updated ones
activeTick_spawnsIntoUpdated(state, roll, pick, firstId) ==
    LET afterDecay ==
            Array([i \in 1..Len(state.datasets) |->
                        decayAndBonus(state.datasets[i], state.staff)])
        incidentResult == processIncidents(afterDecay, state.activeIncidents, state.staff)
        generated == refreshAndGenerate(incidentResult.updatedDatasets, state.staff)
        spawned == spawnIncidents(generated.datasets, 1, roll, pick, firstId)
    IN  [dcGenerated |-> generated.dcGenerated,
         newIncidents |-> <<>>,
         newEvent |-> NULL,
         updatedDatasets |-> generated.datasets,
         updatedIncidents |-> incidentResult.updatedIncidents \o spawned,
         afterDecay |-> afterDecay,
         snapshot |-> state]

\* the active path with no DC from a dataset that a surviving incident halts
activeTick_honoursHalt(state, roll, pick, firstId) ==
    LET afterDecay ==
            Array([i \in 1..Len(state.datasets) |->
                        decayAndBonus(state.datasets[i], state.staff)])
        incidentResult == processIncidents(afterDecay, state.activeIncidents, state.staff)
        generated == refreshAndGenerate(incidentResult.updatedDatasets, state.staff)
        Halted(dataset) ==
            \E j \in 1..Len(incidentResult.updatedIncidents) :
                /\ incidentResult.updatedIncidents[j].dataset_id = dataset.id
                /\ incidentResult.updatedIncidents[j].halts_dc_generation
        Running(dataset) == ~Halted(dataset)
    IN  [dcGenerated |-> calculateTotalDC(SelectSeq(generated.datasets, Running), state.staff),
         newIncidents |-> spawnIncidents(generated.datasets, 1, roll, pick, firstId),
         newEvent |-> NULL,
         updatedDatasets |-> generated.datasets,
         updatedIncidents |-> incidentResult.updatedIncidents,
         afterDecay |-> afterDecay,
         snapshot |-> state]

\* the active path with the DC computed from the input datasets
activeTick_dcFromInput(state, roll, pick, firstId) ==
    LET afterDecay ==
            Array([i \in 1..Len(state.datasets) |->
                        decayAndBonus(state.datasets[i], state.staff)])
        incidentResult == processIncidents(afterDecay, state.activeIncidents, state.staff)
        generated == refreshAndGenerate(incidentResult.updatedDatasets, state.staff)
    IN  [dcGenerated |-> calculateTotalDC(state.datasets, state.staff),
         newIncidents |-> spawnIncidents(generated.datasets, 1, roll, pick, firstId),
         newEvent |-> NULL,
         updatedDatasets |-> generated.datasets,
         updatedIncidents |-> incidentResult.updatedIncidents,
         afterDecay |-> afterDecay,
         snapshot |-> state]

\* processTick, the active path.  afterDecay is the local `datasets` after
\* step 1, kept in the result for the claims about the order of the steps.
\* snapshot is the caller's state object as the call leaves it: every step
\* builds new arrays and objects (.map, .filter, spread) and the only array
\* written to is the local newIncidents, so it is the argument
activeTick(state, roll, pick, firstId) ==
    LET afterDecay ==
            Array([i \in 1..Len(state.datasets) |->
                        decayAndBonus(state.datasets[i], state.staff)])
        incidentResult == processIncidents(afterDecay, state.activeIncidents, state.staff)
        generated == refreshAndGenerate(incidentResult.updatedDatasets, state.staff)
    IN  [dcGenerated |-> generated.dcGenerated,
         newIncidents |-> spawnIncidents(generated.datasets, 1, roll, pick, firstId),
         newEvent |-> NULL,
         updatedDatasets |-> generated.datasets,
         updatedIncidents |-> incidentResult.updatedIncidents,
         afterDecay |-> afterDecay,
         snapshot |-> state]

\* processTick writing the decayed datasets back into the snapshot it was given
processTick_decaysInPlace(state, roll, pick, firstId) ==
    LET tick == IF state.currentEvent # NULL THEN pausedTick(state)
                ELSE activeTick(state, roll, pick, firstId)
    IN  [tick EXCEPT !.snapshot = [state EXCEPT !.datasets = tick.afterDecay]]

\* processTick
processTick(state, roll, pick, firstId) ==
    IF state.currentEvent # NULL THEN pausedTick(state)
    ELSE activeTick(state, roll, pick, firstId)

\* the loop body handing the snapshot's incidents to the engine
offlineBatch_keepsIncidents(state, ticksToSimulate, loop, roll, pick) ==
    LET ticksInBatch == Min(BATCH_SIZE, ticksToSimulate - loop.ticksProcessed)
        tick == processTick([state EXCEPT !.datasets = loop.currentDatasets,
                                          !.currentEvent = NULL],
                            roll, pick, 0)
        batchDC == RMul(RMul(tick.dcGenerated, RInt(ticksInBatch)), OFFLINE_EFFICIENCY)
    IN  [batch |-> loop.batch + 1,
         ticksProcessed |-> loop.ticksProcessed + ticksInBatch,
         totalDCEarned |-> AAdd(loop.totalDCEarned, batchDC),
         currentDatasets |-> tick.updatedDatasets]

\* the loop body counting every batch as a full one
offlineBatch_fullBatches(state, ticksToSimulate, loop, roll, pick) ==
    LET ticksInBatch == BATCH_SIZE
        tick == processTick([state EXCEPT !.datasets = loop.currentDatasets,
                                          !.activeIncidents = <<>>,
                                          !.currentEvent = NULL],
                            roll, pick, 0)
        batchDC == RMul(RMul(tick.dcGenerated, RInt(ticksInBatch)), OFFLINE_EFFICIENCY)
    IN  [batch |-> loop.batch + 1,
         ticksProcessed |-> loop.ticksProcessed + ticksInBatch,
         totalDCEarned |-> AAdd(loop.totalDCEarned, batchDC),
         currentDatasets |-> tick.updatedDatasets]

\* calculateOfflineProgress, the body of the for loop: loop holds the loop
\* variables batch, ticksProcessed, totalDCEarned and currentDatasets; the
\* engine call gets the draws roll and pick, whose incidents are dropped
offlineBatch(state, ticksToSimulate, loop, roll, pick) ==
    LET ticksInBatch == Min(BATCH_SIZE, ticksToSimulate - loop.ticksProcessed)
        tick == processTick([state EXCEPT !.datasets = loop.currentDatasets,
                                          !.activeIncidents = <<>>,
                                          !.currentEvent = NULL],
                            roll, pick, 0)
        batchDC == RMul(RMul(tick.dcGenerated, RInt(ticksInBatch)), OFFLINE_EFFICIENCY)
    IN  [batch |-> loop.batch + 1,
         ticksProcessed |-> loop.ticksProcessed + ticksInBatch,
         totalDCEarned |-> AAdd(loop.totalDCEarned, batchDC),
         currentDatasets |-> tick.updatedDatasets]

\* calculateOfflineProgress, at most n iterations of the for loop
RECURSIVE offlineIterate(_, _, _, _, _, _, _)
offlineIterate(state, batches, ticksToSimulate, loop, n, roll, pick) ==
    IF n = 0 \/ ~(loop.batch < batches) THEN loop
    ELSE CHOOSE done \in
            { offlineIterate(state, batches, ticksToSimulate, next, n - 1, roll, pick) :
                next \in {offlineBatch(state, ticksToSimulate, loop, roll, pick)} } : TRUE

\* calculateOfflineProgress, the for loop, evaluated forty iterations at a time
RECURSIVE offlineLoop(_, _, _, _, _, _)
offlineLoop(state, batches, ticksToSimulate, loop, roll, pick) ==
    IF ~(loop.batch < batches) THEN loop
    ELSE CHOOSE done \in
            { offlineLoop(state, batches, ticksToSimulate, next, roll, pick) :
                next \in {offlineIterate(state, batches, ticksToSimulate, loop, 40,
                                         roll, pick)} } : TRUE

\* calculateOfflineProgress, the caller's state object as the call leaves it.
\* The function assigns to its locals only; its first batch hands the engine
\* the caller's own datasets and staff arrays inside a new state object, so
\* the caller's arrays are what that engine call leaves of them
offlineSnapshot(state, batches, roll, pick) ==
    IF batches = 0 THEN state
    ELSE LET first == processTick([state EXCEPT !.activeIncidents = <<>>,
                                                !.currentEvent = NULL],
                                  roll, pick, 0)
         IN  [state EXCEPT !.datasets = first.snapshot.datasets,
                           !.staff = first.snapshot.staff]

\* calculateOfflineProgress dropping the partial batch (Math.floor for Math.ceil)
calculateOfflineProgress_floorsBatches(state, seconds, roll, pick) ==
    LET ticksToSimulate == Min(seconds, MAX_OFFLINE_SECONDS)
        batches == ticksToSimulate \div BATCH_SIZE
        final == offlineLoop(state, batches, ticksToSimulate,
                             [batch |-> 0, ticksProcessed |-> 0,
                              totalDCEarned |-> AInt(0),
                              currentDatasets |-> state.datasets],
                             roll, pick)
    IN  [dcEarned |-> AFloor(final.totalDCEarned),
         ticksSimulated |-> final.ticksProcessed,
         finalDatasets |-> final.currentDatasets,
         totalDCEarned |-> final.totalDCEarned,
         batches |-> batches,
         snapshot |-> offlineSnapshot(state, batches, roll, pick)]

\* calculateOfflineProgress rounding the total to the nearest integer
calculateOfflineProgress_rounds(state, seconds, roll, pick) ==
    LET ticksToSimulate == Min(seconds, MAX_OFFLINE_SECONDS)
        batches == (ticksToSimulate + (BATCH_SIZE - 1)) \div BATCH_SIZE
        final == offlineLoop(state, batches, ticksToSimulate,
                             [batch |-> 0, ticksProcessed |-> 0,
                              totalDCEarned |-> AInt(0),
                              currentDatasets |-> state.datasets],
                             roll, pick)
    IN  [dcEarned |-> AFloor(AAdd(final.totalDCEarned, <<1, 2>>)),
         ticksSimulated |-> final.ticksProcessed,
         finalDatasets |-> final.currentDatasets,
         totalDCEarned |-> final.totalDCEarned,
         batches |-> batches,
         snapshot |-> offlineSnapshot(state, batches, roll, pick)]

\* calculateOfflineProgress, for an integer secondsElapsed
\* (Math.ceil(t / 60) of an integer t is the floor of (t + 59) / 60);
\* totalDCEarned and batches are the locals of that name
calculateOfflineProgress(state, seconds, roll, pick) ==
    LET ticksToSimulate == Min(seconds, MAX_OFFLINE_SECONDS)
        batches == (ticksToSimulate + (BATCH_SIZE - 1)) \div BATCH_SIZE
        final == offlineLoop(state, batches, ticksToSimulate,
                             [batch |-> 0, ticksProcessed |-> 0,
                              totalDCEarned |-> AInt(0),
                              currentDatasets |-> state.datasets],
                             roll, pick)
    IN  [dcEarned |-> AFloor(final.totalDCEarned),
         ticksSimulated |-> final.ticksProcessed,
         finalDatasets |-> final.currentDatasets,
         totalDCEarned |-> final.totalDCEarned,
         batches |-> batches,
         snapshot |-> offlineSnapshot(state, batches, roll, pick)]

-----------------------------------------------------------------------------
(* useGameTick (hooks/useGameTick.ts): the hook's refs and state, and the  *)
(* interval timers of the window                                           *)

\* the timers the model lets the window create, and the interval firings it
\* follows
MaxTimers == 4

TICK_INTERVAL_MS == 1000
MAX_TICK_DURATION_MS == 100

\* useGameTick, the initial value of its `performance` state
initialPerformance ==
    [averageDurationMs |-> <<0, 1>>, maxDurationMs |-> 0, slowTickCount |-> 0,
     totalTicks |-> 0]

\* the hook before it is mounted: its state, its four refs, the props of the
\* latest render (callbacks numbers the identity of onTick and onSlowTick),
\* the timers alive in the window, and counters of what has happened: the
\* firings of a timer, the calls of onTick and onSlowTick and the errors
\* thrown out of the interval callback
noHook ==
    [mounted |-> FALSE, isPaused |-> FALSE, callbacks |-> 1,
     performance |-> initialPerformance,
     tickDurations |-> <<>>, intervalRef |-> 0, slowTickCountRef |-> 0,
     totalTicksRef |-> 0,
     timers |-> {}, nextTimerId |-> 1,
     firings |-> 0, onTickCalls |-> 0, onSlowTickCalls |-> 0, errors |-> 0]

\* Math.max(...durations)
MaxOf(durations) ==
    CHOOSE d \in { durations[i] : i \in 1..Len(durations) } :
        \A i \in 1..Len(durations) : durations[i] <= d

\* useGameTick's processTick, for a tick that takes `duration` ms.  Inside
\* the hook the name `performance` is the hook's own state (line 152), an
\* object with no `now` method, so the first statement throws a TypeError
\* and the rest of the body is not run
hookProcessTick(h, duration) ==
    IF "now" \notin DOMAIN h.performance
    THEN [h EXCEPT !.errors = @ + 1]
    ELSE LET pushed == Append(h.tickDurations, duration)
             kept == IF Len(pushed) > 10 THEN Tail(pushed) ELSE pushed
             slow == duration > MAX_TICK_DURATION_MS
             slowCount == IF slow THEN h.slowTickCountRef + 1 ELSE h.slowTickCountRef
         IN  [h EXCEPT !.onTickCalls = @ + 1,
                       !.tickDurations = kept,
                       !.totalTicksRef = @ + 1,
                       !.slowTickCountRef = slowCount,
                       !.onSlowTickCalls = IF slow THEN @ + 1 ELSE @,
                       !.performance =
                            [averageDurationMs |-> Rat(ISum(kept), Len(kept)),
                             maxDurationMs |-> MaxOf(kept),
                             slowTickCount |-> slowCount,
                             totalTicks |-> h.totalTicksRef + 1]]

\* useGameTick's startInterval: a new timer running the processTick of the
\* current render, unless the ref holds one
startInterval(h) ==
    IF h.intervalRef # 0 THEN h
    ELSE [h EXCEPT !.intervalRef = h.nextTimerId,
                   !.timers = @ \cup {[id |-> h.nextTimerId, callbacks |-> h.callbacks,
                                       delay |-> TICK_INTERVAL_MS]},
                   !.nextTimerId = @ + 1]

\* stopInterval forgetting the timer without clearing it
stopInterval_keepsTimer(h) ==
    IF h.intervalRef # 0 THEN [h EXCEPT !.intervalRef = 0] ELSE h

\* useGameTick's stopInterval: clearInterval of the timer the ref holds
stopInterval(h) ==
    IF h.intervalRef # 0
    THEN [h EXCEPT !.timers = { t \in @ : t.id # h.intervalRef }, !.intervalRef = 0]
    ELSE h

\* useGameTick's effect, and the cleanup it returns
runEffect(h) == IF h.isPaused THEN stopInterval(h) ELSE startInterval(h)
effectCleanup(h) == stopInterval(h)

-----------------------------------------------------------------------------
(* uiStore (store/uiStore.ts): the notifications, and the timeouts the     *)
(* window holds for them                                                   *)

\* the addNotification calls the model follows
MaxNotifications == 3

\* the delay of the auto-dismiss timeout, in ms
AUTO_DISMISS_MS == 5000

\* uiStore's createInitialState, the notification fields
createInitialUIState == [notifications |-> <<>>, nextNotificationId |-> 1]

\* the UI store after creation, with the window's pending timeouts in the
\* order in which they fall due (every delay is the same, so the order in
\* which they were set) and the clock Date.now() reads, which moves on with
\* every addNotification
noUI ==
    [notifications |-> createInitialUIState.notifications,
     nextNotificationId |-> createInitialUIState.nextNotificationId,
     timeouts |-> <<>>,
     now |-> 0]

\* dismissNotification: notifications.filter(n => n.id !== id)
dismissNotification(u, id) ==
    LET Other(n) == n.id # id
    IN  [u EXCEPT !.notifications = SelectSeq(@, Other)]

\* addNotification at the time `at`: the notification is appended, the next
\* id moves on, and a timeout is set that will dismiss notification.id
addNotification(u, message, type, at) ==
    LET notification ==
            [id |-> u.nextNotificationId, message |-> message, type |-> type,
             timestamp |-> at]
    IN  [u EXCEPT !.notifications = Append(@, notification),
                  !.nextNotificationId = @ + 1,
                  !.timeouts = Append(@, [id |-> notification.id,
                                          delay |-> AUTO_DISMISS_MS,
                                          setAt |-> at]),
                  !.now = at]

\* clearNotifications
clearNotifications(u) == [u EXCEPT !.notifications = <<>>]

\* uiStore's reset: set(createInitialState()); the timeouts already set stay
\* with the window
resetUI(u) ==
    [u EXCEPT !.notifications = createInitialUIState.notifications,
              !.nextNotificationId = createInitialUIState.nextNotificationId]

-----------------------------------------------------------------------------
(* IEEE 754 double arithmetic, for the claims that depend on how the        *)
(* progress of an incident is rounded.  A double > 0 is a record [m, e]:   *)
(* m its 53-bit significand, most significant bit first and equal to 1,    *)
(* and e the exponent of its last bit, so that its value is m * 2^e; zero  *)
(* has the empty significand.  Results are rounded to nearest, ties to     *)
(* even, as JavaScript does                                                *)

\* the bits of the significand of a number (engine.ts computes in numbers)
SIGNIFICAND_BITS == 53

Zeros(n) == [i \in 1..n |-> 0]

\* the binary digits of a natural number
RECURSIVE NatBits(_)
NatBits(k) == IF k = 0 THEN <<>> ELSE NatBits(k \div 2) \o <<k % 2>>

\* the exponent of a power of two
RECURSIVE Log2(_)
Log2(d) == IF d <= 1 THEN 0 ELSE 1 + Log2(d \div 2)

\* the sum of two bit strings of the same length, one bit longer: a bit
\* receives a carry when some lower position holds two ones and every
\* position in between holds one
AddBits(a, b) ==
    LET n == Len(a)
        Carry(i) == \E j \in (i + 1)..n :
                        /\ a[j] + b[j] = 2
                        /\ \A k \in (i + 1)..(j - 1) : a[k] + b[k] = 1
        Bit(c) == IF c THEN 1 ELSE 0
    IN  Array([i \in 1..(n + 1) |->
                IF i = 1 THEN Bit(Carry(0))
                ELSE (a[i - 1] + b[i - 1] + Bit(Carry(i - 1))) % 2])

\* a bit string times a small natural number, by doubling and adding
RECURSIVE MulBits(_, _)
MulBits(a, k) ==
    IF k = 0 THEN <<>>
    ELSE LET double == MulBits(a, k \div 2) \o <<0>>
         IN  IF k % 2 = 0 THEN double
             ELSE LET n == Max(Len(double), Len(a))
                  IN  AddBits(Zeros(n - Len(double)) \o double,
                              Zeros(n - Len(a)) \o a)

\* a bit string without its leading zeros
StripZeros(a) ==
    IF \A i \in 1..Len(a) : a[i] = 0 THEN <<>>
    ELSE LET first == CHOOSE i \in 1..Len(a) :
                            a[i] = 1 /\ \A j \in 1..(i - 1) : a[j] = 0
         IN  SubSeq(a, first, Len(a))

FZero == [m |-> <<>>, e |-> 0]

\* the double nearest to a * 2^e, ties to even
RoundBits(a, e) ==
    LET s == StripZeros(a)
        n == Len(s)
    IN  IF n = 0 THEN FZero
        ELSE IF n <= SIGNIFICAND_BITS
        THEN [m |-> s \o Zeros(SIGNIFICAND_BITS - n), e |-> e - (SIGNIFICAND_BITS - n)]
        ELSE LET keep == SubSeq(s, 1, SIGNIFICAND_BITS)
                 guard == s[SIGNIFICAND_BITS + 1]
                 sticky == \E i \in (SIGNIFICAND_BITS + 2)..n : s[i] = 1
                 up == guard = 1 /\ (sticky \/ keep[SIGNIFICAND_BITS] = 1)
                 inc == AddBits(keep, Zeros(SIGNIFICAND_BITS - 1) \o <<1>>)
             IN  IF ~up THEN [m |-> keep, e |-> e + n - SIGNIFICAND_BITS]
                 ELSE IF inc[1] = 1
                 THEN [m |-> SubSeq(inc, 1, SIGNIFICAND_BITS),
                       e |-> e + n - SIGNIFICAND_BITS + 1]
                 ELSE [m |-> Tail(inc), e |-> e + n - SIGNIFICAND_BITS]

\* x + y
FAdd(x, y) ==
    IF x.m = <<>> THEN y
    ELSE IF y.m = <<>> THEN x
    ELSE LET lo == Min(x.e, y.e)
             hi == Max(x.e, y.e) + SIGNIFICAND_BITS
             Spread(d) == Zeros(hi - (d.e + SIGNIFICAND_BITS)) \o d.m \o Zeros(d.e - lo)
         IN  RoundBits(AddBits(Spread(x), Spread(y)), lo)

\* 2^i modulo b, by squaring
RECURSIVE Pow2Mod(_, _)
Pow2Mod(i, b) ==
    IF i = 0 THEN 1 % b
    ELSE LET half == Pow2Mod(i \div 2, b)
         IN  (half * half * (IF i % 2 = 1 THEN 2 ELSE 1)) % b

\* 1 / b for an integer b >= 1: the long division of 2^70 by b, with one
\* more bit that tells whether anything is left
FDivOne(b) ==
    LET n == 70
        quotient == Array([i \in 1..(n + 1) |->
                            IF i = 1 THEN 1 \div b
                            ELSE (2 * Pow2Mod(i - 2, b)) \div b])
    IN  RoundBits(quotient \o <<IF Pow2Mod(n, b) # 0 THEN 1 ELSE 0>>, -(n + 1))

\* x * (k / d) for a small natural k and a power of two d
FMulSmall(x, k, d) ==
    IF x.m = <<>> \/ k = 0 THEN FZero ELSE RoundBits(MulBits(x.m, k), x.e - Log2(d))

\* the double of a fraction k / d, d a power of two
FOf(r) == RoundBits(NatBits(r[1]), -Log2(r[2]))

\* x >= 1.0 and x < 1.0
FGeqOne(x) == x.m # <<>> /\ x.e + SIGNIFICAND_BITS - 1 >= 0
FLessOne(x) == ~FGeqOne(x)

\* processIncidents, the .map and .filter callbacks in doubles: progress +
\* (1 / base_resolution_time) * resolutionSpeedMultiplier, kept while < 1.0.
\* The multiplier, a product of speeds such as 2 and 1.5, is exact
advanceIncidentF(incident, speed) ==
    LET progressPerTick ==
            FMulSmall(FDivOne(incident.base_resolution_time), speed[1], speed[2])
        newProgress == FAdd(incident.resolution_progress, progressPerTick)
    IN  [incident EXCEPT !.resolution_progress = newProgress]

stillActiveF(incident) == FLessOne(incident.resolution_progress)

-----------------------------------------------------------------------------

(* The values the model draws its inputs from *)

M(t, a, c) == [T |-> t, A |-> a, C |-> c]

\* a Dataset as getAllDatasets builds it from a content row: currentSLA 100
\* and status ok, whatever the metrics a save carries
Dataset(id, base_dc, volume, risk, targets, metrics, pipelines) ==
    [id |-> id, base_dc |-> base_dc, volume |-> volume, risk_rating |-> risk,
     sla_targets |-> targets, current_metrics |-> metrics,
     pipelines_installed |-> pipelines, currentSLA |-> 100000, status |-> "ok"]

\* getStarterDataset: the content row 'customer-transactions' at full metrics
starterDataset ==
    Dataset("customer-transactions", 60, 100, "low", M(9500, 9500, 9500),
            M(10000, 10000, 10000), <<>>)

\* the first dataset with the metrics a snapshot may carry for it
D1(metrics) == Dataset("d1", 60, 100, "low", M(9500, 9500, 9500), metrics, <<>>)

\* a second, larger and riskier dataset with ten pipelines installed
D2(metrics) ==
    Dataset("d2", 180, 20000, "high", M(8000, 8000, 9000), metrics,
            <<"p1", "p2", "p3", "p4", "p5", "p6", "p7", "p8", "p9", "p10">>)

\* a third dataset with three pipelines installed
D3(metrics) ==
    Dataset("d3", 300, 500, "medium", M(9000, 9000, 9000), metrics, <<"p1", "p2", "p3">>)

DatasetLists ==
    { <<>>,
      <<D1(M(10000, 10000, 10000))>>,
      <<D1(M(9500, 9500, 9500))>>,
      <<D1(M(7605, 7600, 7600))>>,
      <<D1(M(5, 0, 300))>>,
      <<D3(M(10000, 5000, 0))>>,
      <<D1(M(10000, 10000, 10000)), D2(M(9995, 8000, 1))>> }

Staff(id, cost, t, a, c, speed, bonus) ==
    [id |-> id, cost_to_hire |-> cost,
     effects |-> [global_T_bonus |-> t, global_A_bonus |-> a, global_C_bonus |-> c,
                  incident_resolution_speed |-> speed, dc_generation_bonus |-> bonus]]

engineer == Staff("engineer", 1000, 20, 20, 20, <<1, 1>>, <<1, 1>>)
sre == Staff("sre", 500, 0, 0, 0, <<2, 1>>, <<11, 10>>)
analyst == Staff("analyst", 0, 5, 0, 0, <<3, 2>>, <<11, 10>>)

StaffLists == { <<>>, <<engineer>>, <<sre>>, <<sre, analyst>> }

Incident(id, type, dataset_id, impact, time, progress, halts) ==
    [id |-> id, type |-> type, dataset_id |-> dataset_id, metric_impact |-> impact,
     base_resolution_time |-> time, resolution_progress |-> progress,
     halts_dc_generation |-> halts]

\* a fresh data delay, one that is 97% resolved, and a halting failure that
\* needs two ticks and is half resolved
freshIncident == Incident(901, "data-delay", "d1", M(-1000, -500, -500), 30, <<0, 1>>, FALSE)
lateIncident == Incident(902, "data-delay", "d1", M(-1000, -500, -500), 30, <<97, 100>>, FALSE)
halfIncident == Incident(903, "pipeline-failure", "d1", IMPACT_MAJOR, 2, <<1, 2>>, TRUE)

IncidentLists ==
    { <<>>, <<freshIncident>>, <<lateIncident>>, <<freshIncident, lateIncident>>,
      <<halfIncident>> }

\* a blocking event
someEvent == [id |-> "event-1"]

\* the values Math.random() is drawn from, and the template indices
RandomDraws == { <<0, 1>>, <<1, 200>>, <<1, 2>> }
TemplatePicks == 1..Len(incidentTypes)

\* a result before any engine call, and a catch-up result before any catch-up
noResult ==
    [dcGenerated |-> <<0, 1>>, newIncidents |-> <<>>, newEvent |-> NULL,
     updatedDatasets |-> <<>>, updatedIncidents |-> <<>>, afterDecay |-> <<>>]
\* no save exported yet
noSave == [id |-> "none"]

\* no incident followed in doubles
noSim == [incidents |-> <<>>, staff |-> <<>>, ticks |-> 0]

noOffline ==
    [dcEarned |-> 0, ticksSimulated |-> 0, finalDatasets |-> <<>>,
     totalDCEarned |-> AInt(0), batches |-> 0]

\* the snapshot the store hands to the engine
Snapshot ==
    [datasets |-> datasets, staff |-> staff, activeIncidents |-> activeIncidents,
     currentEvent |-> currentEvent, dc |-> dc, lifetimeDC |-> lifetimeDC,
     prestigeLevel |-> prestigeLevel]

-----------------------------------------------------------------------------
(* EngineSpec: processTick called in a loop, each call fed the previous     *)
(* result with the spawned incidents appended, on any snapshot             *)

EngineInit ==
    /\ datasets \in DatasetLists
    /\ staff \in StaffLists
    /\ activeIncidents \in IncidentLists
    /\ currentEvent = NULL
    /\ dc = AInt(0)
    /\ lifetimeDC = AInt(0)
    /\ prestigeLevel = 0
    /\ offlineProgressApplied = FALSE
    /\ purchasedPipelines = <<>>
    /\ unlockedTechnologies = <<>>
    /\ lastTickTime = 0
    /\ input = Snapshot
    /\ result = noResult
    /\ secondsElapsed = 0
    /\ offline = noOffline
    /\ lastOp = [op |-> "init", ok |-> TRUE]
    /\ calls = 0
    /\ idCounter = 1
    /\ hook = noHook
    /\ ui = noUI
    /\ exported = noSave
    /\ sim = noSim

\* the draws of a call that makes none (the paused path)
noRoll == [i \in 1..Len(datasets) |-> <<1, 2>>]
noPick == [i \in 1..Len(datasets) |-> 1]

\* one processTick call on the caller's state with the event ev, and the
\* caller's merge of the result
EngineCall(ev, roll, pick) ==
    \E snap \in {[Snapshot EXCEPT !.currentEvent = ev]} :
    \E res \in {processTick(snap, roll, pick, idCounter)} :
        /\ Len(res.updatedIncidents) + Len(res.newIncidents) <= MaxIncidents
        /\ input' = snap
        /\ result' = res
        /\ datasets' = res.updatedDatasets
        /\ activeIncidents' = res.updatedIncidents \o res.newIncidents
        /\ currentEvent' = ev
        /\ idCounter' = idCounter + Len(res.newIncidents)
        /\ lastOp' = [op |-> "processTick", ok |-> TRUE]
        /\ calls' = calls + 1
        /\ UNCHANGED <<purchasedPipelines, unlockedTechnologies, lastTickTime>>
        /\ UNCHANGED <<dc, lifetimeDC, prestigeLevel, staff, offlineProgressApplied,
                       secondsElapsed, offline>>
        /\ UNCHANGED <<hook, ui, exported, sim>>

\* a call while the caller shows a blocking event
EnginePausedTick ==
    /\ calls < MaxTicks
    /\ EngineCall(someEvent, noRoll, noPick)

\* a call with no event, for every outcome of the random draws
EngineActiveTick ==
    /\ calls < MaxTicks
    /\ \E roll \in [1..Len(datasets) -> RandomDraws] :
       \E pick \in [1..Len(datasets) -> TemplatePicks] :
          EngineCall(NULL, roll, pick)

EngineNext == EnginePausedTick \/ EngineActiveTick

EngineSpec == EngineInit /\ [][EngineNext]_vars

-----------------------------------------------------------------------------
(* OfflineSpec: calculateOfflineProgress called once on any snapshot *)

\* the elapsed seconds a catch-up is asked for
OfflineSeconds == { 0, 1, 59, 60, 61, 119, 120, 300, 86400, 100000 }

\* the calls explored: every short catch-up on every snapshot, and the day
\* long ones on a few
OfflineInputs ==
    ({s \in OfflineSeconds : s <= 300} \X DatasetLists
        \X { <<>>, <<engineer>>, <<sre, analyst>> } \X { <<>>, <<freshIncident>> })
    \cup
    ({s \in OfflineSeconds : s > 300}
        \X { <<D1(M(10000, 10000, 10000))>>,
             <<D1(M(10000, 10000, 10000)), D2(M(9995, 8000, 1))>> }
        \X { <<>>, <<sre, analyst>> } \X { <<>> })

OfflineInit ==
    /\ \E in \in OfflineInputs :
        /\ secondsElapsed = in[1]
        /\ datasets = in[2]
        /\ staff = in[3]
        /\ activeIncidents = in[4]
    /\ currentEvent = NULL
    /\ dc = AInt(0)
    /\ lifetimeDC = AInt(0)
    /\ prestigeLevel = 0
    /\ offlineProgressApplied = FALSE
    /\ purchasedPipelines = <<>>
    /\ unlockedTechnologies = <<>>
    /\ lastTickTime = 0
    /\ input = Snapshot
    /\ result = noResult
    /\ offline = noOffline
    /\ lastOp = [op |-> "init", ok |-> TRUE]
    /\ calls = 0
    /\ idCounter = 1
    /\ hook = noHook
    /\ ui = noUI
    /\ exported = noSave
    /\ sim = noSim

\* the call; the draws of its engine ticks are all low or all high
OfflineCall ==
    /\ lastOp.op = "init"
    /\ \E r \in { <<0, 1>>, <<1, 2>> } :
          offline' = calculateOfflineProgress(Snapshot, secondsElapsed,
                        [i \in 1..Len(datasets) |-> r], noPick)
    /\ input' = Snapshot
    /\ lastOp' = [op |-> "calculateOfflineProgress", ok |-> TRUE]
    /\ calls' = calls + 1
    /\ UNCHANGED <<dc, lifetimeDC, prestigeLevel, datasets, staff, activeIncidents,
                   currentEvent, offlineProgressApplied, result, secondsElapsed, idCounter>>
    /\ UNCHANGED <<purchasedPipelines, unlockedTechnologies, lastTickTime>>
    /\ UNCHANGED <<hook, ui, exported, sim>>

OfflineNext == OfflineCall

OfflineSpec == OfflineInit /\ [][OfflineNext]_vars

-----------------------------------------------------------------------------
(* FormulaSpec: one call of a function of the formula library; input holds *)
(* the function's name and arguments, result what it returned              *)

\* the values a metric argument is drawn from, in and out of 0..100
SLAGrid == { -5000, 0, 5000, 10000, 20000 }
StatusGrid == { 0, 6000, 7600, 9500, 10000 }
ChanceGrid == { 0, 5000, 10000 }

\* n datasets with the same metrics
Repeat(n, metrics) == [i \in 1..n |-> D1(metrics)]

\* the dataset lists and lifetime DC amounts canPrestige is called with
PrestigeLists ==
    { Repeat(n, m) : n \in {0, 9, 10, 11},
                     m \in { M(10000, 10000, 10000), M(9500, 9500, 9500),
                             M(9499, 9500, 9500), M(0, 0, 0) } }
    \cup { Repeat(5, M(10000, 10000, 10000)) \o Repeat(5, M(9000, 9000, 9000)),
           Repeat(5, M(10000, 10000, 10000)) \o Repeat(5, M(8999, 9000, 9000)) }
LifetimeAmounts ==
    { AInt(0), AInt(1999999), [whole |-> 1999999, frac |-> <<1, 2>>], AInt(2000000),
      AInt(5000000) }

\* the calls explored
FormulaInputs ==
    { [fn |-> "calculateSLA", metrics |-> M(t, a, c)] :
        t \in SLAGrid, a \in SLAGrid, c \in SLAGrid }
    \cup
    { [fn |-> "calculateDatasetStatus",
       dataset |-> Dataset("d1", 60, 100, "low", targets, M(t, a, c), <<>>)] :
        t \in StatusGrid, a \in StatusGrid, c \in StatusGrid,
        targets \in { M(9500, 9500, 9500), M(8000, 8000, 9000), M(0, 0, 0),
                      M(10000, 10000, 10000) } }
    \cup
    { [fn |-> "calculateIncidentChance",
       dataset |-> Dataset("d1", 60, volume, risk, M(9500, 9500, 9500), M(t, a, c), <<>>),
       baseChance |-> DEFAULT_BASE_CHANCE] :
        t \in ChanceGrid, a \in ChanceGrid, c \in ChanceGrid,
        volume \in { 0, 100, 20000, 1000000 }, risk \in { "low", "medium", "high" } }
    \cup
    { [fn |-> "canPrestige", datasets |-> list, lifetimeDC |-> lifetime] :
        list \in PrestigeLists, lifetime \in LifetimeAmounts }

FormulaInit ==
    /\ input \in FormulaInputs
    /\ datasets = <<>>
    /\ staff = <<>>
    /\ activeIncidents = <<>>
    /\ currentEvent = NULL
    /\ dc = AInt(0)
    /\ lifetimeDC = AInt(0)
    /\ prestigeLevel = 0
    /\ offlineProgressApplied = FALSE
    /\ purchasedPipelines = <<>>
    /\ unlockedTechnologies = <<>>
    /\ lastTickTime = 0
    /\ result = noResult
    /\ secondsElapsed = 0
    /\ offline = noOffline
    /\ lastOp = [op |-> "init", ok |-> TRUE]
    /\ calls = 0
    /\ idCounter = 1
    /\ hook = noHook
    /\ ui = noUI
    /\ exported = noSave
    /\ sim = noSim

\* the call of the function input names, returning value
Returns(fn, value) ==
    /\ lastOp.op = "init"
    /\ input.fn = fn
    /\ result' = value
    /\ lastOp' = [op |-> fn, ok |-> TRUE]
    /\ calls' = calls + 1
    /\ UNCHANGED <<dc, lifetimeDC, prestigeLevel, datasets, staff, activeIncidents,
                   currentEvent, offlineProgressApplied, purchasedPipelines,
                   unlockedTechnologies, lastTickTime, input, secondsElapsed, offline,
                   idCounter>>
    /\ UNCHANGED <<hook, ui, exported, sim>>

CallCalculateSLA ==
    /\ input.fn = "calculateSLA"
    /\ Returns("calculateSLA", calculateSLA(input.metrics))
CallCalculateDatasetStatus ==
    /\ input.fn = "calculateDatasetStatus"
    /\ Returns("calculateDatasetStatus", calculateDatasetStatus(input.dataset))
CallCalculateIncidentChance ==
    /\ input.fn = "calculateIncidentChance"
    /\ Returns("calculateIncidentChance",
               calculateIncidentChance(input.dataset, input.baseChance))
CallCanPrestige ==
    /\ input.fn = "canPrestige"
    /\ Returns("canPrestige", canPrestige(input.datasets, input.lifetimeDC))

FormulaNext ==
    \/ CallCalculateSLA
    \/ CallCalculateDatasetStatus
    \/ CallCalculateIncidentChance
    \/ CallCanPrestige

FormulaSpec == FormulaInit /\ [][FormulaNext]_vars

-----------------------------------------------------------------------------
(* Spec: the game store (gameStore.ts), created with the persisted save    *)
(* merged in, and driven by its actions                                    *)

\* createInitialState
createInitialState ==
    [dc |-> AInt(0), lifetimeDC |-> AInt(0), prestigeLevel |-> 0,
     datasets |-> <<starterDataset>>, purchasedPipelines |-> <<>>, staff |-> <<>>,
     unlockedTechnologies |-> <<>>, activeIncidents |-> <<>>,
     currentEvent |-> NULL, lastTickTime |-> 0, offlineProgressApplied |-> FALSE]

\* the saves the persist middleware may find: what partialize keeps
PersistedSaves ==
    [dc : {AInt(1000)},
     lifetimeDC : {AInt(1000)},
     prestigeLevel : {0, 1},
     datasets : { <<D1(M(7605, 7600, 7600))>>,
                  <<D1(M(5000, 9500, 20))>> },
     purchasedPipelines : { <<>> },
     staff : { <<>>, <<engineer>> },
     unlockedTechnologies : { <<>> },
     activeIncidents : { <<>>, <<lateIncident>> },
     lastTickTime : { 0 }]

\* ten datasets unlocked, at the metrics a save may carry for them
TenDatasets(metrics) ==
    LET ids == <<"ds-1", "ds-2", "ds-3", "ds-4", "ds-5", "ds-6", "ds-7", "ds-8",
                 "ds-9", "ds-10">>
    IN  Array([i \in 1..10 |->
                Dataset(ids[i], 60, 100, "low", M(9500, 9500, 9500), metrics, <<>>)])

\* the saves of a long game: ten datasets, with the lifetime DC at the
\* prestige threshold or one tick short of it
LateSaves ==
    [dc : {AInt(1000)},
     lifetimeDC : {AInt(2000000), AInt(1999995)},
     prestigeLevel : {1},
     datasets : { TenDatasets(M(10000, 10000, 10000)) },
     purchasedPipelines : { <<"pipe-1">> },
     staff : { <<engineer>> },
     unlockedTechnologies : { <<"tech-c">> },
     activeIncidents : { <<>> },
     lastTickTime : { 0 }]

\* the staff and the datasets the content catalog offers
StaffCatalog == { engineer, sre }
DatasetCatalog == { D3(M(10000, 10000, 10000)) }

\* the elapsed seconds the store is asked to catch up
StoreOfflineSeconds == { 10, 130 }

\* an event that offers a reward or a costly way out
offerEvent ==
    [id |-> "event-2",
     choices |->
        << [id |-> "accept",
            effects |-> [dc_change |-> 500, metric_changes |-> NULL]],
           [id |-> "ignore",
            effects |-> [dc_change |-> -2000,
                         metric_changes |-> M(-1000, 0, 500)]] >>]

\* a stored state that also carries the event the game was showing: the
\* persist middleware spreads every field the storage holds over the initial
\* state, whatever partialize would write today
EventSaves ==
    [dc : {AInt(1000)},
     lifetimeDC : {AInt(1000)},
     prestigeLevel : {1},
     datasets : { <<D1(M(5000, 9500, 20))>> },
     purchasedPipelines : { <<>> },
     staff : { <<>> },
     unlockedTechnologies : { <<>> },
     activeIncidents : { <<lateIncident>> },
     lastTickTime : { 0 },
     currentEvent : { offerEvent }]

\* the stored fields merged over the initial state
Rehydrated(save) ==
    /\ dc = save.dc
    /\ lifetimeDC = save.lifetimeDC
    /\ prestigeLevel = save.prestigeLevel
    /\ datasets = save.datasets
    /\ staff = save.staff
    /\ activeIncidents = save.activeIncidents
    /\ purchasedPipelines = save.purchasedPipelines
    /\ unlockedTechnologies = save.unlockedTechnologies
    /\ lastTickTime = save.lastTickTime

\* the store after creation: the initial state, or the initial state with a
\* persisted save merged over it
Init ==
    /\ \/ \E save \in {[f \in {"dc", "lifetimeDC", "prestigeLevel", "datasets",
                               "purchasedPipelines", "staff", "unlockedTechnologies",
                               "activeIncidents", "lastTickTime"} |-> createInitialState[f]]}
                      \cup PersistedSaves \cup LateSaves :
            /\ Rehydrated(save)
            /\ currentEvent = createInitialState.currentEvent
       \/ \E save \in EventSaves :
            /\ Rehydrated(save)
            /\ currentEvent = save.currentEvent
    /\ offlineProgressApplied = createInitialState.offlineProgressApplied
    /\ input = Snapshot
    /\ result = noResult
    /\ secondsElapsed = 0
    /\ offline = noOffline
    /\ lastOp = [op |-> "init", ok |-> TRUE]
    /\ calls = 0
    /\ idCounter = 1
    /\ hook = noHook
    /\ ui = noUI
    /\ exported = noSave
    /\ sim = noSim

\* tick, the prestige bonus added to a dataset's metrics after the engine call
withPrestige(dataset, prestigeBonus) ==
    [dataset EXCEPT !.current_metrics =
        [T |-> Min(10000, dataset.current_metrics.T + prestigeBonus),
         A |-> Min(10000, dataset.current_metrics.A + prestigeBonus),
         C |-> Min(10000, dataset.current_metrics.C + prestigeBonus)]]

\* tick, the datasets it stores
datasetsWithPrestige(updatedDatasets, level) ==
    LET prestigeBonus == calculatePrestigeBonus(level)
    IN  Array([i \in 1..Len(updatedDatasets) |->
                    withPrestige(updatedDatasets[i], prestigeBonus)])

\* the draws explored in a tick on n datasets: every combination for up to
\* two datasets; on more, only the first dataset's draw varies and the
\* others draw 0.5
Draws(n) ==
    IF n <= 2 THEN [1..n -> RandomDraws]
    ELSE { [i \in 1..n |-> IF i = 1 THEN r ELSE <<1, 2>>] : r \in RandomDraws }
Picks(n) ==
    IF n <= 2 THEN [1..n -> TemplatePicks]
    ELSE { [i \in 1..n |-> p] : p \in TemplatePicks }

\* tick storing the spawned incidents ahead of the surviving ones
storedIncidents_spawnedFirst(res) == res.newIncidents \o res.updatedIncidents

\* tick, the incidents it stores: [...result.updatedIncidents, ...result.newIncidents]
storedIncidents(res) == res.updatedIncidents \o res.newIncidents

\* tick
Tick ==
    /\ calls < MaxTicks
    /\ \E roll \in Draws(Len(datasets)) :
       \E pick \in Picks(Len(datasets)) :
       \E res \in {processTick(Snapshot, roll, pick, idCounter)} :
          /\ Len(res.updatedIncidents) + Len(res.newIncidents) <= MaxIncidents
          /\ input' = Snapshot
          /\ result' = res
          /\ dc' = AAdd(dc, res.dcGenerated)
          /\ lifetimeDC' = AAdd(lifetimeDC, res.dcGenerated)
          /\ datasets' = datasetsWithPrestige(res.updatedDatasets, prestigeLevel)
          /\ activeIncidents' = storedIncidents(res)
          /\ currentEvent' = IF res.newEvent # NULL THEN res.newEvent ELSE currentEvent
          /\ idCounter' = idCounter + Len(res.newIncidents)
    /\ lastTickTime' = calls + 1
    /\ lastOp' = [op |-> "tick", ok |-> TRUE]
    /\ calls' = calls + 1
    /\ UNCHANGED <<prestigeLevel, staff, offlineProgressApplied, purchasedPipelines,
                   unlockedTechnologies, secondsElapsed, offline>>
    /\ UNCHANGED <<hook, ui, exported, sim>>

\* canAfford answering yes to every cost
canAfford_always(cost) == TRUE

\* canAfford
canAfford(cost) == AGeq(dc, cost)

\* hireStaff
HireStaff ==
    /\ calls < MaxTicks
    /\ \E member \in StaffCatalog :
        IF \E i \in 1..Len(staff) : staff[i].id = member.id
        THEN /\ lastOp' = [op |-> "hireStaff", ok |-> FALSE, arg |-> member]
             /\ UNCHANGED <<dc, staff>>
        ELSE IF ~canAfford(member.cost_to_hire)
        THEN /\ lastOp' = [op |-> "hireStaff", ok |-> FALSE, arg |-> member]
             /\ UNCHANGED <<dc, staff>>
        ELSE /\ dc' = AAdd(dc, RInt(-member.cost_to_hire))
             /\ staff' = Append(staff, member)
             /\ lastOp' = [op |-> "hireStaff", ok |-> TRUE, arg |-> member]
    /\ calls' = calls + 1
    /\ UNCHANGED <<lifetimeDC, prestigeLevel, datasets, activeIncidents, currentEvent,
                   offlineProgressApplied, purchasedPipelines, unlockedTechnologies,
                   lastTickTime, input, result, secondsElapsed, offline, idCounter>>
    /\ UNCHANGED <<hook, ui, exported, sim>>

\* the unlocked check finding no dataset of that id
alreadyUnlocked_never(datasetList, dataset) == FALSE

\* unlockDataset, the check: state.datasets.some(d => d.id === dataset.id)
alreadyUnlocked(datasetList, dataset) ==
    \E i \in 1..Len(datasetList) : datasetList[i].id = dataset.id

\* unlockDataset
UnlockDataset ==
    /\ calls < MaxTicks
    /\ \E dataset \in DatasetCatalog :
        IF alreadyUnlocked(datasets, dataset)
        THEN /\ lastOp' = [op |-> "unlockDataset", ok |-> FALSE, arg |-> dataset]
             /\ UNCHANGED datasets
        ELSE /\ datasets' = Append(datasets, dataset)
             /\ lastOp' = [op |-> "unlockDataset", ok |-> TRUE, arg |-> dataset]
    /\ calls' = calls + 1
    /\ UNCHANGED <<dc, lifetimeDC, prestigeLevel, staff, activeIncidents, currentEvent,
                   offlineProgressApplied, purchasedPipelines, unlockedTechnologies,
                   lastTickTime, input, result, secondsElapsed, offline, idCounter>>
    /\ UNCHANGED <<hook, ui, exported, sim>>

\* applyOfflineProgress; the catch-up can still be asked for after the last
\* of the MaxTicks other calls
ApplyOfflineProgress ==
    /\ calls <= MaxTicks
    /\ \E seconds \in StoreOfflineSeconds :
        IF offlineProgressApplied
        THEN /\ lastOp' = [op |-> "applyOfflineProgress", ok |-> FALSE]
             /\ UNCHANGED <<dc, lifetimeDC, datasets, activeIncidents,
                            offlineProgressApplied, lastTickTime, input,
                            secondsElapsed, offline>>
        ELSE \E r \in { <<0, 1>>, <<1, 2>> } :
             \E res \in {calculateOfflineProgress(Snapshot, seconds,
                            [i \in 1..Len(datasets) |-> r], noPick)} :
                /\ input' = Snapshot
                /\ secondsElapsed' = seconds
                /\ offline' = res
                /\ dc' = AAdd(dc, RInt(res.dcEarned))
                /\ lifetimeDC' = AAdd(lifetimeDC, RInt(res.dcEarned))
                /\ datasets' = res.finalDatasets
                /\ activeIncidents' = <<>>
                /\ offlineProgressApplied' = TRUE
                /\ lastTickTime' = calls + 1
                /\ lastOp' = [op |-> "applyOfflineProgress", ok |-> TRUE]
    /\ calls' = calls + 1
    /\ UNCHANGED <<prestigeLevel, staff, currentEvent, purchasedPipelines,
                   unlockedTechnologies, result, idCounter>>
    /\ UNCHANGED <<hook, ui, exported, sim>>

\* a technology of the content catalog, with the fields the store reads
Technology(id, cost_dc, requires) == [id |-> id, cost_dc |-> cost_dc, requires |-> requires]

\* the technologies the content catalog offers
TechCatalog ==
    { Technology("tech-a", 500, <<>>),
      Technology("tech-b", 0, <<"tech-a">>),
      Technology("tech-c", 2000, <<>>) }

\* Array.prototype.includes
includes(list, x) == \E i \in 1..Len(list) : list[i] = x

\* the prerequisites check passing whatever is unlocked
hasPrerequisites_always(tech, unlocked) == TRUE

\* unlockTechnology, the prerequisites check: tech.requires.every(...)
hasPrerequisites(tech, unlocked) ==
    \A i \in 1..Len(tech.requires) : includes(unlocked, tech.requires[i])

\* getAvailableTechnologies: the catalog's technologies that are not unlocked
\* yet and whose prerequisites all are
getAvailableTechnologies(unlocked) ==
    { tech \in TechCatalog :
        IF includes(unlocked, tech.id) THEN FALSE
        ELSE \A i \in 1..Len(tech.requires) : includes(unlocked, tech.requires[i]) }

\* unlockTechnology
UnlockTechnology ==
    /\ calls < MaxTicks
    /\ \E tech \in TechCatalog :
        IF includes(unlockedTechnologies, tech.id)
        THEN /\ lastOp' = [op |-> "unlockTechnology", ok |-> FALSE, arg |-> tech]
             /\ UNCHANGED <<dc, unlockedTechnologies>>
        ELSE IF ~hasPrerequisites(tech, unlockedTechnologies)
        THEN /\ lastOp' = [op |-> "unlockTechnology", ok |-> FALSE, arg |-> tech]
             /\ UNCHANGED <<dc, unlockedTechnologies>>
        ELSE IF ~canAfford(tech.cost_dc)
        THEN /\ lastOp' = [op |-> "unlockTechnology", ok |-> FALSE, arg |-> tech]
             /\ UNCHANGED <<dc, unlockedTechnologies>>
        ELSE /\ dc' = AAdd(dc, RInt(-tech.cost_dc))
             /\ unlockedTechnologies' = Append(unlockedTechnologies, tech.id)
             /\ lastOp' = [op |-> "unlockTechnology", ok |-> TRUE, arg |-> tech]
    /\ calls' = calls + 1
    /\ UNCHANGED <<lifetimeDC, prestigeLevel, datasets, staff, activeIncidents,
                   currentEvent, offlineProgressApplied, purchasedPipelines,
                   lastTickTime, input, result, secondsElapsed, offline, idCounter>>
    /\ UNCHANGED <<hook, ui, exported, sim>>

\* the fields exportSave writes under "state"
SaveFields ==
    { "dc", "lifetimeDC", "prestigeLevel", "datasets", "purchasedPipelines", "staff",
      "unlockedTechnologies", "activeIncidents", "lastTickTime" }

\* the state of an exported save
exportedState ==
    [dc |-> AInt(5000), lifetimeDC |-> AInt(5000), prestigeLevel |-> 1,
     datasets |-> <<D1(M(9000, 9000, 9000))>>, purchasedPipelines |-> <<"pipe-1">>,
     staff |-> <<sre>>, unlockedTechnologies |-> <<"tech-c">>,
     activeIncidents |-> <<>>, lastTickTime |-> 0]

\* the strings importSave is given: parses tells whether JSON.parse returns,
\* object whether it returns something a property can be read from (reading
\* .version from null throws), version is parsed.version (0 when absent) and
\* present names the fields of parsed.state and state holds their values
SaveInputs ==
    { [parses |-> FALSE, object |-> FALSE, version |-> 0, present |-> {}, state |-> exportedState],
      [parses |-> TRUE, object |-> FALSE, version |-> 0, present |-> {}, state |-> exportedState],
      [parses |-> TRUE, object |-> TRUE, version |-> 0, present |-> SaveFields, state |-> exportedState],
      [parses |-> TRUE, object |-> TRUE, version |-> 2, present |-> SaveFields, state |-> exportedState],
      [parses |-> TRUE, object |-> TRUE, version |-> 1, present |-> SaveFields, state |-> exportedState],
      [parses |-> TRUE, object |-> TRUE, version |-> 1, present |-> {"dc"}, state |-> exportedState] }

\* importSave without the version check
importAccepted_anyVersion(save) == save.parses /\ save.object

\* importSave: whether the try block reaches set(...)
importAccepted(save) == save.parses /\ save.object /\ save.version = SAVE_VERSION

\* importSave leaving every field as it is
imported_keepsCurrent(save, field, current) == current

\* exportSave: the text it returns for the state of the store, a version 1
\* save with the nine fields (JSON.stringify and JSON.parse give back the
\* numbers, strings, booleans, arrays and plain objects these fields are
\* made of; the timestamp, which importSave does not read, is left out)
exportSave ==
    [parses |-> TRUE, object |-> TRUE, version |-> SAVE_VERSION, present |-> SaveFields,
     state |-> [dc |-> dc, lifetimeDC |-> lifetimeDC, prestigeLevel |-> prestigeLevel,
                datasets |-> datasets, purchasedPipelines |-> purchasedPipelines,
                staff |-> staff, unlockedTechnologies |-> unlockedTechnologies,
                activeIncidents |-> activeIncidents, lastTickTime |-> lastTickTime]]

\* importSave, the value set(...) gives to a field: parsed.state's when it
\* has the field, the current one otherwise
imported(save, field, current) ==
    IF field \in save.present THEN save.state[field] ELSE current

\* importSave, given one of the texts above or the text exportSave returned;
\* offline and secondsElapsed keep the catch-up applied to the game in the
\* store, none once another game is loaded
ImportSave ==
    /\ calls < MaxTicks
    /\ \E save \in SaveInputs \cup ({exported} \ {noSave}) :
        IF ~importAccepted(save)
        THEN /\ lastOp' = [op |-> "importSave", ok |-> FALSE, arg |-> save]
             /\ UNCHANGED <<dc, lifetimeDC, prestigeLevel, datasets, purchasedPipelines,
                            staff, unlockedTechnologies, activeIncidents, lastTickTime,
                            currentEvent, offlineProgressApplied, secondsElapsed,
                            offline>>
        ELSE /\ dc' = imported(save, "dc", dc)
             /\ lifetimeDC' = imported(save, "lifetimeDC", lifetimeDC)
             /\ prestigeLevel' = imported(save, "prestigeLevel", prestigeLevel)
             /\ datasets' = imported(save, "datasets", datasets)
             /\ purchasedPipelines' = imported(save, "purchasedPipelines", purchasedPipelines)
             /\ staff' = imported(save, "staff", staff)
             /\ unlockedTechnologies' =
                    imported(save, "unlockedTechnologies", unlockedTechnologies)
             /\ activeIncidents' = imported(save, "activeIncidents", activeIncidents)
             /\ lastTickTime' = imported(save, "lastTickTime", lastTickTime)
             /\ currentEvent' = NULL
             /\ offlineProgressApplied' = FALSE
             /\ secondsElapsed' = 0
             /\ offline' = noOffline
             /\ lastOp' = [op |-> "importSave", ok |-> TRUE, arg |-> save]
    /\ calls' = calls + 1
    /\ UNCHANGED <<input, result, idCounter>>
    /\ UNCHANGED <<hook, ui, exported, sim>>

\* the fields of the store state
storeState ==
    <<dc, lifetimeDC, prestigeLevel, datasets, purchasedPipelines, staff,
      unlockedTechnologies, activeIncidents, currentEvent, lastTickTime,
      offlineProgressApplied>>

\* the choice identifiers resolveEvent is called with
ChoiceIds == { "accept", "ignore", "no-such-choice" }

\* resolveEvent, the metrics after a choice's metric_changes: each metric
\* plus its change, kept within [0, 100]
withMetricChanges(dataset, changes) ==
    [dataset EXCEPT !.current_metrics =
        [T |-> Max(0, Min(10000, dataset.current_metrics.T + changes.T)),
         A |-> Max(0, Min(10000, dataset.current_metrics.A + changes.A)),
         C |-> Max(0, Min(10000, dataset.current_metrics.C + changes.C))]]

\* resolveEvent; a choice carries effects.dc_change (0 when absent) and
\* effects.metric_changes (NULL when absent)
ResolveEvent ==
    /\ calls < MaxTicks
    /\ \E choiceId \in ChoiceIds :
        LET event == currentEvent
        IN  IF event = NULL
            THEN /\ lastOp' = [op |-> "resolveEvent", ok |-> FALSE]
                 /\ UNCHANGED <<dc, datasets, currentEvent>>
            ELSE IF ~\E i \in 1..Len(event.choices) : event.choices[i].id = choiceId
            THEN /\ lastOp' = [op |-> "resolveEvent", ok |-> FALSE]
                 /\ UNCHANGED <<dc, datasets, currentEvent>>
            ELSE LET choice == event.choices[
                                CHOOSE i \in 1..Len(event.choices) :
                                    /\ event.choices[i].id = choiceId
                                    /\ \A j \in 1..(i - 1) : event.choices[j].id # choiceId]
                     effects == choice.effects
                 IN  /\ dc' = AAdd(dc, RInt(effects.dc_change))
                     /\ datasets' =
                            IF effects.metric_changes # NULL
                            THEN Array([i \in 1..Len(datasets) |->
                                    withMetricChanges(datasets[i], effects.metric_changes)])
                            ELSE datasets
                     /\ currentEvent' = NULL
                     /\ lastOp' = [op |-> "resolveEvent", ok |-> TRUE]
    /\ calls' = calls + 1
    /\ UNCHANGED <<lifetimeDC, prestigeLevel, staff, activeIncidents,
                   offlineProgressApplied, purchasedPipelines, unlockedTechnologies,
                   lastTickTime, input, result, secondsElapsed, offline, idCounter>>
    /\ UNCHANGED <<hook, ui, exported, sim>>

\* the state a function of the store sets with set(next)
SetState(next) ==
    /\ dc' = next.dc
    /\ lifetimeDC' = next.lifetimeDC
    /\ prestigeLevel' = next.prestigeLevel
    /\ datasets' = next.datasets
    /\ purchasedPipelines' = next.purchasedPipelines
    /\ staff' = next.staff
    /\ unlockedTechnologies' = next.unlockedTechnologies
    /\ activeIncidents' = next.activeIncidents
    /\ currentEvent' = next.currentEvent
    /\ lastTickTime' = next.lastTickTime
    /\ offlineProgressApplied' = next.offlineProgressApplied

\* createInitialState called at the time now (lastTickTime: Date.now())
initialStateAt(now) == [createInitialState EXCEPT !.lastTickTime = now]

\* prestige resetting the technologies with the rest
prestigeState_dropsTechnologies(level, technologies, now) ==
    [initialStateAt(now) EXCEPT !.prestigeLevel = level + 1]

\* prestige, the state it sets: the initial state with the level raised and
\* the technologies kept
prestigeState(level, technologies, now) ==
    [initialStateAt(now) EXCEPT !.prestigeLevel = level + 1,
                                !.unlockedTechnologies = technologies]

\* prestige
Prestige ==
    /\ calls < MaxTicks
    /\ IF ~canPrestige(datasets, lifetimeDC)
       THEN /\ lastOp' = [op |-> "prestige", ok |-> FALSE]
            /\ UNCHANGED storeState
       ELSE /\ SetState(prestigeState(prestigeLevel, unlockedTechnologies, calls + 1))
            /\ lastOp' = [op |-> "prestige", ok |-> TRUE]
    /\ calls' = calls + 1
    /\ UNCHANGED <<input, result, secondsElapsed, offline, idCounter>>
    /\ UNCHANGED <<hook, ui, exported, sim>>

\* reset, which starts a new game
Reset ==
    /\ calls < MaxTicks
    /\ SetState(initialStateAt(calls + 1))
    /\ secondsElapsed' = 0
    /\ offline' = noOffline
    /\ lastOp' = [op |-> "reset", ok |-> TRUE]
    /\ calls' = calls + 1
    /\ UNCHANGED <<input, result, idCounter>>
    /\ UNCHANGED <<hook, ui, exported, sim>>

Next ==
    \/ Tick
    \/ HireStaff
    \/ UnlockDataset
    \/ ApplyOfflineProgress
    \/ UnlockTechnology
    \/ ImportSave
    \/ ResolveEvent
    \/ Prestige
    \/ Reset

Spec == Init /\ [][Next]_vars

-----------------------------------------------------------------------------
(* SaveSpec: the store of a new game, or of a stored one that shows an      *)
(* event, with exportSave called at some point and its text imported later *)

SaveInit ==
    /\ Init
    /\ currentEvent # NULL \/ lifetimeDC = createInitialState.lifetimeDC

\* exportSave; it changes nothing in the store, and the model keeps the
\* first text it returns
ExportSave ==
    /\ exported = noSave
    /\ sim = noSim
    /\ exported' = exportSave
    /\ lastOp' = [op |-> "exportSave", ok |-> TRUE]
    /\ UNCHANGED storeState
    /\ UNCHANGED <<input, result, secondsElapsed, offline, calls, idCounter, hook, ui, sim>>

SaveNext == ExportSave \/ Next

SaveSpec == SaveInit /\ [][SaveNext]_vars

-----------------------------------------------------------------------------
(* HookSpec: a component that uses useGameTick is mounted, re-rendered     *)
(* with other props, unmounted and mounted again, while the timers fire    *)

\* the variables of the game, which the hook does not touch
gameVars ==
    <<dc, lifetimeDC, prestigeLevel, datasets, staff, activeIncidents, currentEvent,
      offlineProgressApplied, purchasedPipelines, unlockedTechnologies, lastTickTime,
      input, result, secondsElapsed, offline, lastOp, calls, idCounter, ui, exported, sim>>

\* the durations a tick is measured to take, in ms
Durations == { 40, 100, 101, 250 }

HookInit ==
    /\ dc = createInitialState.dc
    /\ lifetimeDC = createInitialState.lifetimeDC
    /\ prestigeLevel = createInitialState.prestigeLevel
    /\ datasets = createInitialState.datasets
    /\ staff = createInitialState.staff
    /\ activeIncidents = createInitialState.activeIncidents
    /\ currentEvent = createInitialState.currentEvent
    /\ offlineProgressApplied = createInitialState.offlineProgressApplied
    /\ purchasedPipelines = createInitialState.purchasedPipelines
    /\ unlockedTechnologies = createInitialState.unlockedTechnologies
    /\ lastTickTime = createInitialState.lastTickTime
    /\ input = Snapshot
    /\ result = noResult
    /\ secondsElapsed = 0
    /\ offline = noOffline
    /\ lastOp = [op |-> "init", ok |-> TRUE]
    /\ calls = 0
    /\ idCounter = 1
    /\ hook = noHook
    /\ ui = noUI
    /\ exported = noSave
    /\ sim = noSim

\* the hook after a render and its effects, within the timers of the model
Rendered(next) ==
    /\ next.nextTimerId <= MaxTimers + 1
    /\ hook' = next
    /\ UNCHANGED gameVars

\* the first render of a new instance: fresh state and refs, then the effect
HookMount ==
    /\ ~hook.mounted
    /\ \E paused \in BOOLEAN :
          Rendered(runEffect([noHook EXCEPT !.mounted = TRUE,
                                            !.isPaused = paused,
                                            !.callbacks = hook.callbacks,
                                            !.timers = hook.timers,
                                            !.nextTimerId = hook.nextTimerId,
                                            !.firings = hook.firings,
                                            !.onTickCalls = hook.onTickCalls,
                                            !.onSlowTickCalls = hook.onSlowTickCalls,
                                            !.errors = hook.errors]))

\* a render with isPaused changed: the cleanup of the previous effect, then
\* the effect
HookSetPaused ==
    /\ hook.mounted
    /\ Rendered(runEffect([effectCleanup(hook) EXCEPT !.isPaused = ~hook.isPaused]))

\* a render with another onTick or onSlowTick: processTick and startInterval
\* change identity, so the effect is cleaned up and run again
HookChangeCallback ==
    /\ hook.mounted
    /\ Rendered(runEffect([effectCleanup(hook) EXCEPT !.callbacks = 3 - @]))

\* the unmount: the cleanup of the effect
HookUnmount ==
    /\ hook.mounted
    /\ Rendered([effectCleanup(hook) EXCEPT !.mounted = FALSE])

\* a live timer fires and its callback runs processTick to its end
HookIntervalFires ==
    /\ hook.firings < MaxTimers
    /\ \E timer \in hook.timers : \E duration \in Durations :
          /\ hook' = [hookProcessTick(hook, duration) EXCEPT !.firings = @ + 1]
          /\ UNCHANGED gameVars

HookNext ==
    \/ HookMount
    \/ HookSetPaused
    \/ HookChangeCallback
    \/ HookUnmount
    \/ HookIntervalFires

HookSpec == HookInit /\ [][HookNext]_vars

-----------------------------------------------------------------------------
(* HookLiveSpec: HookSpec with the window firing a live interval timer      *)
(* again and again.  The counters of what has happened stop counting at    *)
(* MaxTimers, so that the timer can fire for ever                          *)

\* a live timer fires and its callback runs processTick to its end
HookLiveIntervalFires ==
    \E timer \in hook.timers : \E duration \in Durations :
        /\ hook' = [hookProcessTick(hook, duration) EXCEPT
                        !.firings = Min(hook.firings + 1, MaxTimers),
                        !.onTickCalls = Min(@, MaxTimers),
                        !.onSlowTickCalls = Min(@, MaxTimers),
                        !.errors = Min(@, MaxTimers)]
        /\ UNCHANGED gameVars

HookLiveNext ==
    \/ HookMount
    \/ HookSetPaused
    \/ HookChangeCallback
    \/ HookUnmount
    \/ HookLiveIntervalFires

\* the event loop runs the callback of a timer that stays alive
HookLiveSpec == HookInit /\ [][HookLiveNext]_vars /\ WF_vars(HookLiveIntervalFires)

-----------------------------------------------------------------------------
(* UISpec: the actions of the UI store called in any order while the        *)
(* timeouts of the window fall due                                         *)

\* what the UI store does not touch
notUI ==
    <<dc, lifetimeDC, prestigeLevel, datasets, staff, activeIncidents, currentEvent,
      offlineProgressApplied, purchasedPipelines, unlockedTechnologies, lastTickTime,
      input, result, secondsElapsed, offline, calls, idCounter, hook, exported, sim>>

\* the types a notification is added with
NotificationTypes == { "info", "error" }

UIInit == HookInit

\* addNotification(message, type)
UIAddNotification ==
    /\ ui.now < MaxNotifications
    /\ \E type \in NotificationTypes :
          /\ ui' = addNotification(ui, "saved", type, ui.now + 1)
          /\ lastOp' = [op |-> "addNotification", ok |-> TRUE, arg |-> ui.nextNotificationId]
    /\ UNCHANGED notUI

\* dismissNotification(id), from the close button of a toast
UIDismissNotification ==
    /\ \E id \in 1..MaxNotifications :
          /\ ui' = dismissNotification(ui, id)
          /\ lastOp' = [op |-> "dismissNotification", ok |-> TRUE, arg |-> id]
    /\ UNCHANGED notUI

\* clearNotifications()
UIClearNotifications ==
    /\ ui' = clearNotifications(ui)
    /\ lastOp' = [op |-> "clearNotifications", ok |-> TRUE, arg |-> 0]
    /\ UNCHANGED notUI

\* reset()
UIReset ==
    /\ ui' = resetUI(ui)
    /\ lastOp' = [op |-> "reset", ok |-> TRUE, arg |-> 0]
    /\ UNCHANGED notUI

\* the timeout that falls due first runs its callback,
\* get().dismissNotification(notification.id); arg is the time at which the
\* timeout was set, which is the timestamp of the notification it was set for
UITimeoutFires ==
    /\ ui.timeouts # <<>>
    /\ LET timeout == Head(ui.timeouts)
       IN  /\ ui' = [dismissNotification(ui, timeout.id) EXCEPT !.timeouts = Tail(@)]
           /\ lastOp' = [op |-> "timeout", ok |-> TRUE, arg |-> timeout.setAt]
    /\ UNCHANGED notUI

UINext ==
    \/ UIAddNotification
    \/ UIDismissNotification
    \/ UIClearNotifications
    \/ UIReset
    \/ UITimeoutFires

UISpec == UIInit /\ [][UINext]_vars

-----------------------------------------------------------------------------
(* ResolveSpec: a newly created incident taken through one active tick      *)
(* after another with its progress computed in doubles, for each incident  *)
(* type and each staff                                                     *)

\* the active ticks the model follows
MaxActiveTicks == 125

ResolveInit ==
    /\ dc = createInitialState.dc
    /\ lifetimeDC = createInitialState.lifetimeDC
    /\ prestigeLevel = createInitialState.prestigeLevel
    /\ datasets = createInitialState.datasets
    /\ staff = createInitialState.staff
    /\ activeIncidents = createInitialState.activeIncidents
    /\ currentEvent = createInitialState.currentEvent
    /\ offlineProgressApplied = createInitialState.offlineProgressApplied
    /\ purchasedPipelines = createInitialState.purchasedPipelines
    /\ unlockedTechnologies = createInitialState.unlockedTechnologies
    /\ lastTickTime = createInitialState.lastTickTime
    /\ input = Snapshot
    /\ result = noResult
    /\ secondsElapsed = 0
    /\ offline = noOffline
    /\ lastOp = [op |-> "init", ok |-> TRUE]
    /\ calls = 0
    /\ idCounter = 1
    /\ hook = noHook
    /\ ui = noUI
    /\ exported = noSave
    /\ \E pick \in TemplatePicks : \E staffList \in StaffLists :
          LET incident == createIncident(starterDataset, pick, 1)
          IN  sim = [incidents |->
                        <<[incident EXCEPT !.resolution_progress = FOf(@)]>>,
                     staff |-> staffList,
                     ticks |-> 0]

\* processIncidents on the incidents followed, in an active tick
ResolveActiveTick ==
    /\ sim.incidents # <<>>
    /\ sim.ticks < MaxActiveTicks
    /\ LET speed == resolutionSpeedMultiplier(sim.staff)
           advanced == Array([i \in 1..Len(sim.incidents) |->
                                advanceIncidentF(sim.incidents[i], speed)])
       IN  sim' = [sim EXCEPT !.incidents = SelectSeq(advanced, stillActiveF),
                              !.ticks = @ + 1]
    /\ UNCHANGED <<dc, lifetimeDC, prestigeLevel, datasets, staff, activeIncidents,
                   currentEvent, offlineProgressApplied, purchasedPipelines,
                   unlockedTechnologies, lastTickTime, input, result, secondsElapsed,
                   offline, lastOp, calls, idCounter, hook, ui, exported>>

ResolveNext == ResolveActiveTick

ResolveSpec == ResolveInit /\ [][ResolveNext]_vars

-----------------------------------------------------------------------------
(* Properties of processTick, checked under EngineSpec *)

\* the latest operation was a processTick call on the paused / the active path
PausedCall == lastOp.op = "processTick" /\ input.currentEvent # NULL
ActiveCall == lastOp.op = "processTick" /\ input.currentEvent = NULL

MetricNames == {"T", "A", "C"}

\* C1: processTick called with a current event returns dcGenerated 0, no new
\* incident, no new event, and the input datasets and incidents unchanged.
PausedTickIsNoOp ==
    PausedCall =>
        /\ result.dcGenerated = <<0, 1>>
        /\ result.newIncidents = <<>>
        /\ result.newEvent = NULL
        /\ result.updatedDatasets = input.datasets
        /\ result.updatedIncidents = input.activeIncidents

\* C1 witness: a paused call, after an earlier call, on a dataset that would
\* have decayed and an incident that would have progressed
PausedTickWitness ==
    /\ PausedCall
    /\ calls >= 2
    /\ input.activeIncidents # <<>>
    /\ \E i \in 1..Len(input.datasets) : input.datasets[i].current_metrics.T > 0
    /\ result.updatedDatasets = input.datasets

\* C2: from datasets with metrics in 0..100, staff bonuses >= 0 and incident
\* impacts <= 0 (every snapshot EngineInit draws), after any sequence of
\* processTick calls every T, A, C and currentSLA lies in 0..100.
MetricsInRange ==
    \A i \in 1..Len(datasets) :
        /\ \A m \in MetricNames :
              datasets[i].current_metrics[m] >= 0 /\ datasets[i].current_metrics[m] <= 10000
        /\ datasets[i].currentSLA >= 0 /\ datasets[i].currentSLA <= 100000

\* C2 witness: an active call in which the decay of a metric below the decay
\* rate stopped at 0 and a staff bonus on another dataset stopped at 100
ClampWitness ==
    /\ ActiveCall
    /\ \E i \in 1..Len(datasets) :
          /\ input.datasets[i].current_metrics.T > 0
          /\ input.datasets[i].current_metrics.T < effectiveDecayRate(input.datasets[i])
          /\ datasets[i].current_metrics.T = 0

\* the sum of the impacts on metric m of the incidents of a list that name
\* the dataset id
RECURSIVE ImpactSum(_, _, _)
ImpactSum(incidents, id, m) ==
    IF incidents = <<>> THEN 0
    ELSE (IF Head(incidents).dataset_id = id THEN Head(incidents).metric_impact[m] ELSE 0)
            + ImpactSum(Tail(incidents), id, m)

\* the input incidents whose progress reaches 1.0 in the latest call
ResolvedNow ==
    { k \in 1..Len(input.activeIncidents) :
        ~\E j \in 1..Len(result.updatedIncidents) :
            result.updatedIncidents[j].id = input.activeIncidents[k].id }

NextProgress(incident) ==
    RAdd(incident.resolution_progress,
         RMul(<<1, incident.base_resolution_time>>,
              RProd([j \in 1..Len(input.staff) |->
                        input.staff[j].effects.incident_resolution_speed])))

\* C4: an incident is dropped in exactly the active tick in which progress +
\* (1 / base_resolution_time) * speed reaches 1.0, and is kept, with that
\* progress, in every tick where the sum is below 1.0.
IncidentDroppedAtOne ==
    ActiveCall =>
        /\ \A k \in 1..Len(input.activeIncidents) :
              IF RLeq(<<1, 1>>, NextProgress(input.activeIncidents[k]))
              THEN k \in ResolvedNow
              ELSE \E j \in 1..Len(result.updatedIncidents) :
                      result.updatedIncidents[j] =
                          [input.activeIncidents[k] EXCEPT
                              !.resolution_progress = NextProgress(input.activeIncidents[k])]
        /\ Len(result.updatedIncidents) = Len(input.activeIncidents) - Cardinality(ResolvedNow)
        /\ (input.activeIncidents = <<lateIncident>> /\ input.staff = <<>>) =>
                result.updatedIncidents = <<>>

\* C4 witness: the incident at progress 0.97 of 30 ticks, with no staff, is
\* gone after one call, next to one that is kept
IncidentDroppedWitness ==
    /\ ActiveCall
    /\ input.staff = <<>>
    /\ input.activeIncidents = <<freshIncident, lateIncident>>
    /\ Len(result.updatedIncidents) = 1
    /\ result.updatedIncidents[1].id = freshIncident.id
    /\ result.updatedIncidents[1].resolution_progress = <<1, 30>>

\* C5: in the result of every active tick each dataset's currentSLA and
\* status are those of its final metrics of that tick.
StatusRefreshed ==
    ActiveCall =>
        \A i \in 1..Len(result.updatedDatasets) :
            LET d == result.updatedDatasets[i]
                sla == 4 * d.current_metrics.T + 4 * d.current_metrics.A
                        + 2 * d.current_metrics.C
                target == 4 * d.sla_targets.T + 4 * d.sla_targets.A + 2 * d.sla_targets.C
            IN  /\ d.currentSLA = sla
                /\ d.status = IF sla >= target THEN "ok"
                              ELSE IF 10 * sla >= 8 * target THEN "warning"
                              ELSE "failing"

\* C5 witness: a dataset handed in as ok at SLA 100 comes back failing, after
\* an incident lowered the decayed metrics
StatusRefreshedWitness ==
    /\ ActiveCall
    /\ \E i \in 1..Len(result.updatedDatasets) :
          /\ input.datasets[i].status = "ok"
          /\ input.datasets[i].currentSLA = 100000
          /\ result.updatedDatasets[i].status = "failing"
          /\ result.updatedDatasets[i].current_metrics
                # result.afterDecay[i].current_metrics

\* C7: the dcGenerated of an active tick is the sum over the datasets of
\* base_dc * (SLA of the final metrics of the tick / 100) * the product of
\* the staff dc_generation_bonus / 60; a lone dataset of base_dc 60 at
\* 100/100/100 with no staff and no incident ends at 99.9/99.9/99.9, ok,
\* and generates 0.999.
DCFromFinalMetrics ==
    ActiveCall =>
        /\ result.dcGenerated =
              RSum([i \in 1..Len(result.updatedDatasets) |->
                      LET d == result.updatedDatasets[i]
                          sla == 4 * d.current_metrics.T + 4 * d.current_metrics.A
                                  + 2 * d.current_metrics.C
                      IN  RMul(Rat(d.base_dc * sla, 6000000),
                               RProd([j \in 1..Len(input.staff) |->
                                        input.staff[j].effects.dc_generation_bonus]))])
        /\ (/\ input.datasets = <<D1(M(10000, 10000, 10000))>>
            /\ input.staff = <<>>
            /\ input.activeIncidents = <<>>) =>
                /\ result.updatedDatasets[1].current_metrics = M(9990, 9990, 9990)
                /\ result.updatedDatasets[1].status = "ok"
                /\ result.dcGenerated = <<999, 1000>>

\* C7 witness: the lone dataset at 100/100/100 after one active tick
DCFromFinalMetricsWitness ==
    /\ ActiveCall
    /\ input.datasets = <<D1(M(10000, 10000, 10000))>>
    /\ input.staff = <<>>
    /\ input.activeIncidents = <<>>
    /\ result.dcGenerated = <<999, 1000>>
    /\ result.updatedDatasets[1].currentSLA = 99900

\* C8: step 1 decays first and adds the staff bonuses second: each metric of
\* a dataset after step 1 is min(100, max(0, m - effectiveDecay) + the sum of
\* the staff bonuses), which with no staff is max(0, m - effectiveDecay).
DecayBeforeBonus ==
    ActiveCall =>
        \A i \in 1..Len(input.datasets) :
            LET d == input.datasets[i]
                installed == Len(d.pipelines_installed)
                decay == IF 10 - installed > 1 THEN 10 - installed ELSE 1
                bonus == [T |-> ISum([j \in 1..Len(input.staff) |->
                                        input.staff[j].effects.global_T_bonus]),
                          A |-> ISum([j \in 1..Len(input.staff) |->
                                        input.staff[j].effects.global_A_bonus]),
                          C |-> ISum([j \in 1..Len(input.staff) |->
                                        input.staff[j].effects.global_C_bonus])]
            IN  \A m \in MetricNames :
                    result.afterDecay[i].current_metrics[m] =
                        IF input.staff = <<>>
                        THEN Max(0, d.current_metrics[m] - decay)
                        ELSE Min(10000, Max(0, d.current_metrics[m] - decay) + bonus[m])

\* C8 witness: a metric at 100 with a staff bonus above the decay stays at
\* 100, in the tick's result too
DecayBeforeBonusWitness ==
    /\ ActiveCall
    /\ input.staff = <<engineer>>
    /\ \E i \in 1..Len(input.datasets) :
          /\ input.datasets[i].current_metrics.T = 10000
          /\ result.afterDecay[i].current_metrics.T = 10000
          /\ result.updatedDatasets[i].current_metrics.T = 10000

\* C12: processTick is deterministic apart from spawning: a second call on
\* the same snapshot, whatever it draws and whatever identifier it generates,
\* returns the same dcGenerated, updatedDatasets and updatedIncidents.
TickDeterministic ==
    lastOp.op = "processTick" =>
        \A roll \in [1..Len(input.datasets) -> RandomDraws] :
        \A pick \in [1..Len(input.datasets) -> TemplatePicks] :
            LET second == processTick(input, roll, pick, idCounter + 7)
            IN  /\ second.dcGenerated = result.dcGenerated
                /\ second.updatedDatasets = result.updatedDatasets
                /\ second.updatedIncidents = result.updatedIncidents

\* C12 witness: a call that spawned an incident, on a snapshot from which
\* other draws spawn none
TickDeterministicWitness ==
    /\ ActiveCall
    /\ result.newIncidents # <<>>
    /\ result.updatedIncidents # <<>>
    /\ \E roll \in [1..Len(input.datasets) -> RandomDraws] :
          processTick(input, roll, [i \in 1..Len(input.datasets) |-> 1], idCounter)
              .newIncidents = <<>>

\* the DC a dataset of a result contributes: base_dc * SLA / 100 * the staff
\* multiplier / 60
Contribution(dataset) ==
    RMul(Rat(dataset.base_dc * dataset.currentSLA, 6000000),
         RProd([j \in 1..Len(input.staff) |-> input.staff[j].effects.dc_generation_bonus]))

ProgressPerTick(incident) ==
    RMul(<<1, incident.base_resolution_time>>,
         RProd([j \in 1..Len(staff) |-> staff[j].effects.incident_resolution_speed]))

\* C20: an incident present before and after an active tick has advanced
\* by (1 / base_resolution_time) * the product of the staff's
\* incident_resolution_speed, a strict increase; over any engine call the
\* progress of an incident never decreases.
ProgressIncreases ==
    [][lastOp'.op = "processTick" =>
        \A k \in 1..Len(activeIncidents) : \A j \in 1..Len(activeIncidents') :
            activeIncidents'[j].id = activeIncidents[k].id =>
                LET before == activeIncidents[k].resolution_progress
                    after == activeIncidents'[j].resolution_progress
                IN  IF input'.currentEvent = NULL
                    THEN /\ after = RAdd(before, ProgressPerTick(activeIncidents[k]))
                         /\ RLess(before, after)
                    ELSE RLeq(before, after)]_vars

\* C20 witness: with two staff members of speed 2 and 1.5 the incident of 30
\* ticks went from 0 to 0.1
ProgressIncreasesWitness ==
    /\ ActiveCall
    /\ input.staff = <<sre, analyst>>
    /\ \E k \in 1..Len(input.activeIncidents) : \E j \in 1..Len(activeIncidents) :
          /\ input.activeIncidents[k] = freshIncident
          /\ activeIncidents[j].id = freshIncident.id
          /\ activeIncidents[j].resolution_progress = <<1, 10>>

-----------------------------------------------------------------------------
(* Properties of the store, checked under Spec *)

\* C6, as claimed: after every tick() of the store each stored dataset's
\* currentSLA and status are those of its stored metrics, at every prestige
\* level.
StoredStatusFresh ==
    lastOp.op = "tick" =>
        \A i \in 1..Len(datasets) :
            /\ datasets[i].currentSLA = calculateSLA(datasets[i].current_metrics)
            /\ datasets[i].status = calculateDatasetStatus(datasets[i])

\* a step of hireStaff(lastOp'.arg): refused with the state as it was, or
\* granted with the cost taken and the member appended
HireStaffAtomic ==
    lastOp'.op = "hireStaff" =>
        LET member == lastOp'.arg
        IN  IF \/ \E i \in 1..Len(staff) : staff[i].id = member.id
               \/ dc.whole < member.cost_to_hire
            THEN ~lastOp'.ok /\ UNCHANGED storeState
            ELSE /\ lastOp'.ok
                 /\ dc' = [whole |-> dc.whole - member.cost_to_hire, frac |-> dc.frac]
                 /\ staff' = staff \o <<member>>
                 /\ UNCHANGED <<lifetimeDC, prestigeLevel, datasets, purchasedPipelines,
                                unlockedTechnologies, activeIncidents, currentEvent,
                                lastTickTime, offlineProgressApplied>>

\* a step of unlockTechnology(lastOp'.arg), likewise
UnlockTechnologyAtomic ==
    lastOp'.op = "unlockTechnology" =>
        LET tech == lastOp'.arg
            unlocked == { unlockedTechnologies[i] : i \in 1..Len(unlockedTechnologies) }
            required == { tech.requires[i] : i \in 1..Len(tech.requires) }
        IN  IF \/ tech.id \in unlocked
               \/ ~(required \subseteq unlocked)
               \/ dc.whole < tech.cost_dc
            THEN ~lastOp'.ok /\ UNCHANGED storeState
            ELSE /\ lastOp'.ok
                 /\ dc' = [whole |-> dc.whole - tech.cost_dc, frac |-> dc.frac]
                 /\ unlockedTechnologies' = unlockedTechnologies \o <<tech.id>>
                 /\ UNCHANGED <<lifetimeDC, prestigeLevel, datasets, purchasedPipelines,
                                staff, activeIncidents, currentEvent, lastTickTime,
                                offlineProgressApplied>>

\* C14: hireStaff and unlockTechnology are atomic: each returns false and
\* leaves the whole store state unchanged when a precondition fails (already
\* hired / unlocked, a prerequisite missing, dc below the cost), and
\* otherwise returns true, subtracts exactly the cost and appends the entry.
StoreActionsAtomic == [][HireStaffAtomic /\ UnlockTechnologyAtomic]_vars

\* C14 witness: a technology was paid for and unlocked, and unlocking it
\* again was refused
StoreActionsAtomicWitness ==
    /\ lastOp.op = "unlockTechnology"
    /\ ~lastOp.ok
    /\ lastOp.arg.id = "tech-a"
    /\ unlockedTechnologies = <<"tech-a">>
    /\ dc = AInt(500)

\* C15: importSave returns false on a string that is not JSON or whose
\* version is not 1, and a call that returns false leaves every field of the
\* store state unchanged.
ImportRejectedKeepsState ==
    [][lastOp'.op = "importSave" =>
            /\ (~lastOp'.arg.parses \/ lastOp'.arg.version # 1) => ~lastOp'.ok
            /\ ~lastOp'.ok => UNCHANGED storeState]_vars

\* C15 witness: a save of version 2 was refused by a store that had changed
\* since its creation
ImportRejectedWitness ==
    /\ lastOp.op = "importSave"
    /\ ~lastOp.ok
    /\ lastOp.arg.parses
    /\ lastOp.arg.version = 2
    /\ staff # <<>>
    /\ lastTickTime > 0

-----------------------------------------------------------------------------
(* Properties of calculateOfflineProgress, checked under OfflineSpec *)

OfflineCalled == lastOp.op = "calculateOfflineProgress"

\* C9: for an integer secondsElapsed >= 0 the ticksSimulated returned is
\* min(secondsElapsed, 86400), the seconds covered and not the batch count.
TicksSimulatedCapped ==
    OfflineCalled =>
        offline.ticksSimulated = IF secondsElapsed < 86400 THEN secondsElapsed ELSE 86400

\* C9 witness: a catch-up over more than a day, and one that ends in a
\* partial batch
TicksSimulatedWitness ==
    /\ OfflineCalled
    /\ secondsElapsed > 86400
    /\ offline.ticksSimulated = 86400
    /\ offline.batches = 1440

\* the sum over the batches of d_b * n_b * 0.5, where d_b is the dcGenerated
\* of one engine tick on the datasets the batch before left and n_b the
\* seconds of the batch; an amount, whose whole part is its floor
RECURSIVE BatchSum(_, _, _)
BatchSum(datasetList, staffList, remaining) ==
    IF remaining <= 0 THEN AInt(0)
    ELSE LET n == IF remaining < 60 THEN remaining ELSE 60
             tick == activeTick([datasets |-> datasetList, staff |-> staffList,
                                 activeIncidents |-> <<>>, currentEvent |-> NULL],
                                [i \in 1..Len(datasetList) |-> <<1, 2>>],
                                [i \in 1..Len(datasetList) |-> 1], 0)
         IN  CHOOSE total \in
                { AAdd(rest, RMul(tick.dcGenerated, <<n, 2>>)) :
                    rest \in {BatchSum(tick.updatedDatasets, staffList, remaining - n)} } :
                TRUE

\* C10: the dcEarned returned is the floor of the sum over the batches of
\* d_b * n_b * 0.5, an integer; a lone dataset of base_dc 60 at 100% SLA
\* with no staff earns strictly between 25 and 35 DC over 60 seconds.
\* The sum is recomputed batch by batch for catch-ups of up to five batches;
\* over a day the lone dataset loses 0.1 point per batch, its batch b of
\* 1..1000 yields (1000 - b) / 1000 * 60 * 0.5 and the later ones nothing,
\* which sums to 30 * 499500 / 1000 = 14985.
OfflineDCEarned ==
    OfflineCalled =>
        /\ offline.dcEarned \in Nat
        /\ secondsElapsed <= 300 =>
              offline.dcEarned = BatchSum(input.datasets, input.staff, secondsElapsed).whole
        /\ (/\ input.datasets = <<D1(M(10000, 10000, 10000))>>
            /\ input.staff = <<>>
            /\ secondsElapsed >= 86400) =>
                offline.dcEarned = 14985
        /\ (/\ input.datasets = <<D1(M(10000, 10000, 10000))>>
            /\ input.staff = <<>>
            /\ secondsElapsed = 60) =>
                offline.dcEarned > 25 /\ offline.dcEarned < 35

\* C10 witness: the lone dataset over 60 seconds earns 29 of 29.97 DC
OfflineDCEarnedWitness ==
    /\ OfflineCalled
    /\ input.datasets = <<D1(M(10000, 10000, 10000))>>
    /\ input.staff = <<>>
    /\ secondsElapsed = 60
    /\ offline.dcEarned = 29
    /\ offline.totalDCEarned = [whole |-> 29, frac |-> <<97, 100>>]

\* the incident lists a second snapshot may carry, and the draws its
\* engine ticks may see (a draw of 0 spawns an incident in every batch)
OtherIncidents ==
    IF input.activeIncidents # <<>> THEN { <<>> }
    ELSE IF secondsElapsed <= 300 THEN { <<freshIncident>>, <<halfIncident, lateIncident>> }
    ELSE { <<freshIncident>> }
OtherDraws == IF secondsElapsed <= 300 THEN { <<0, 1>>, <<1, 2>> } ELSE { <<0, 1>> }

\* C11: offline catch-up does not model incidents: a second snapshot that
\* differs only in activeIncidents, whatever its ticks draw, gets the same
\* dcEarned, ticksSimulated and finalDatasets, so neither the snapshot's
\* incidents nor those spawned during the catch-up reach a later batch.
OfflineIgnoresIncidents ==
    OfflineCalled =>
        \A other \in OtherIncidents : \A draw \in OtherDraws :
            LET second == calculateOfflineProgress(
                            [input EXCEPT !.activeIncidents = other], secondsElapsed,
                            [i \in 1..Len(input.datasets) |-> draw],
                            [i \in 1..Len(input.datasets) |-> 3])
            IN  /\ second.dcEarned = offline.dcEarned
                /\ second.ticksSimulated = offline.ticksSimulated
                /\ second.finalDatasets = offline.finalDatasets

\* C11 witness: a snapshot with an active incident on its only dataset, after
\* two batches that show the decay alone
OfflineIgnoresIncidentsWitness ==
    /\ OfflineCalled
    /\ input.activeIncidents = <<freshIncident>>
    /\ input.datasets = <<D1(M(10000, 10000, 10000))>>
    /\ input.staff = <<>>
    /\ secondsElapsed = 120
    /\ offline.finalDatasets[1].current_metrics = M(9980, 9980, 9980)
    /\ offline.dcEarned = 59

-----------------------------------------------------------------------------
(* Properties of the formula library, checked under FormulaSpec *)

\* 0.4 * T + 0.4 * A + 0.2 * C in thousandths, and the same between 0 and 100
Weighted(metrics) == 4 * metrics.T + 4 * metrics.A + 2 * metrics.C
Clamped(metrics) ==
    IF Weighted(metrics) < 0 THEN 0
    ELSE IF Weighted(metrics) > 100000 THEN 100000
    ELSE Weighted(metrics)

\* C16: canPrestige is true if and only if there are at least 10 datasets,
\* their average SLA is at least 95 and lifetimeDC is at least 2,000,000.
CanPrestigeGates ==
    lastOp.op = "canPrestige" =>
        LET n == Len(input.datasets)
            total == ISum([i \in 1..n |-> Clamped(input.datasets[i].current_metrics)])
        IN  result = (/\ n >= 10
                      /\ total >= 95000 * n
                      /\ input.lifetimeDC.whole >= 2000000)

\* C16 witness: ten datasets at an average of exactly 95 and half a DC short
\* of two million
CanPrestigeWitness ==
    /\ lastOp.op = "canPrestige"
    /\ Len(input.datasets) = 10
    /\ calculateGlobalSLA(input.datasets) = <<95000, 1>>
    /\ input.lifetimeDC = [whole |-> 1999999, frac |-> <<1, 2>>]
    /\ result = FALSE

\* the order of the statuses
Rank(status) == IF status = "ok" THEN 2 ELSE IF status = "warning" THEN 1 ELSE 0

\* C17: the status is ok exactly when the SLA is at or above the target
\* SLA, warning exactly when it is below it and at or above 0.8 of it, and
\* failing otherwise; lowering every metric never improves the status.
StatusCases ==
    lastOp.op = "calculateDatasetStatus" =>
        LET sla == Clamped(input.dataset.current_metrics)
            target == Clamped(input.dataset.sla_targets)
        IN  /\ result \in {"ok", "warning", "failing"}
            /\ result = "ok" <=> sla >= target
            /\ result = "warning" <=> (8 * target <= 10 * sla /\ sla < target)
            /\ result = "failing" <=> 10 * sla < 8 * target
            /\ \A t \in StatusGrid : \A a \in StatusGrid : \A c \in StatusGrid :
                  (/\ t <= input.dataset.current_metrics.T
                   /\ a <= input.dataset.current_metrics.A
                   /\ c <= input.dataset.current_metrics.C) =>
                        Rank(calculateDatasetStatus(
                                [input.dataset EXCEPT !.current_metrics = M(t, a, c)]))
                            <= Rank(result)

\* C17 witness: an SLA of exactly 0.8 of the target is a warning
StatusCasesWitness ==
    /\ lastOp.op = "calculateDatasetStatus"
    /\ input.dataset.sla_targets = M(9500, 9500, 9500)
    /\ input.dataset.current_metrics = M(7600, 7600, 7600)
    /\ result = "warning"

\* C18: the incident chance of every dataset lies in 0.001..0.1: it is
\* 0.001, not 0, at 100% SLA, and never above 0.1 however large the volume.
ChanceClamped ==
    lastOp.op = "calculateIncidentChance" =>
        /\ RLeq(<<1, 1000>>, result)
        /\ RLeq(result, <<1, 10>>)
        /\ Clamped(input.dataset.current_metrics) = 100000 => result = <<1, 1000>>
        /\ (/\ input.dataset.volume = 1000000
            /\ Clamped(input.dataset.current_metrics) <= 50000) => result = <<1, 10>>

\* C18 witness: a dataset at 100% SLA, of the largest volume and the highest
\* risk, has the chance 0.001
ChanceClampedWitness ==
    /\ lastOp.op = "calculateIncidentChance"
    /\ input.dataset.current_metrics = M(10000, 10000, 10000)
    /\ input.dataset.volume = 1000000
    /\ input.dataset.risk_rating = "high"
    /\ result = <<1, 1000>>

\* C19: sla(metrics) is 0.4 T + 0.4 A + 0.2 C clamped to 0..100, for metrics
\* in and out of range: 100 at (100, 100, 100), 0 at (0, 0, 0) and 60 at
\* (100, 50, 0).
SLAClamped ==
    lastOp.op = "calculateSLA" =>
        /\ result = Clamped(input.metrics)
        /\ result >= 0 /\ result <= 100000
        /\ input.metrics = M(10000, 10000, 10000) => result = 100000
        /\ input.metrics = M(0, 0, 0) => result = 0
        /\ input.metrics = M(10000, 5000, 0) => result = 60000

\* C19 witness: metrics above the range give 100
SLAClampedWitness ==
    /\ lastOp.op = "calculateSLA"
    /\ input.metrics = M(20000, 20000, 10000)
    /\ result = 100000

-----------------------------------------------------------------------------
(* Claims about the incident phase, the spawning and the decay rate *)

\* the orders a list of n elements can be put in
Orders(n) == { p \in [1..n -> 1..n] : \A i, j \in 1..n : p[i] = p[j] => i = j }

\* the list s in the order p
Reordered(s, p) == [i \in 1..Len(s) |-> s[p[i]]]

\* the incidents of the latest result that name the dataset id
Surviving(id) ==
    { k \in 1..Len(result.updatedIncidents) : result.updatedIncidents[k].dataset_id = id }

\* C21: the surviving incidents on a dataset lower each of its metrics by the
\* sum of their impacts, floored at 0, whatever the order of the incident
\* list; a dataset no surviving incident names leaves the incident phase as
\* it entered it.
ImpactsCumulative ==
    ActiveCall =>
        /\ \A i \in 1..Len(input.datasets) :
              LET entered == result.afterDecay[i]
                  left == result.updatedDatasets[i]
              IN  /\ \A m \in MetricNames :
                        /\ ImpactSum(result.updatedIncidents, entered.id, m) <= 0
                        /\ left.current_metrics[m] =
                              Max(0, entered.current_metrics[m]
                                      + ImpactSum(result.updatedIncidents, entered.id, m))
                  /\ left = refreshStatus([entered EXCEPT
                                !.current_metrics = left.current_metrics])
                  /\ Surviving(entered.id) = {} =>
                        left.current_metrics = entered.current_metrics
        /\ \A p \in Orders(Len(input.activeIncidents)) :
              LET reordered == [input EXCEPT
                                  !.activeIncidents = Reordered(input.activeIncidents, p)]
              IN  processTick(reordered, noRoll, noPick, idCounter).updatedDatasets
                      = result.updatedDatasets

\* C21 witness: two surviving incidents on one dataset lowered a metric by
\* more than either alone, next to a dataset that no incident names
ImpactsCumulativeWitness ==
    /\ ActiveCall
    /\ \E i, j \in 1..Len(input.datasets) :
          LET id == input.datasets[i].id
          IN  /\ Cardinality(Surviving(id)) >= 2
              /\ \A k \in Surviving(id) :
                    result.updatedDatasets[i].current_metrics.T
                        < result.afterDecay[i].current_metrics.T
                            + result.updatedIncidents[k].metric_impact.T
              /\ result.updatedDatasets[i].current_metrics.T > 0
              /\ Surviving(input.datasets[j].id) = {}
              /\ result.updatedDatasets[j].current_metrics
                    = result.afterDecay[j].current_metrics

\* the three kinds of incident a tick can spawn: type, impact, ticks to
\* resolve at speed 1 and the halt flag
Archetypes ==
    { <<"data-delay", M(-500, -500, -500), 30, FALSE>>,
      <<"corrupted-batch", M(-1500, -1500, -1000), 60, FALSE>>,
      <<"pipeline-failure", M(-3000, -3000, -2000), 120, TRUE>> }

\* the new incidents of the latest result that name the dataset id
SpawnedOn(id) ==
    { k \in 1..Len(result.newIncidents) : result.newIncidents[k].dataset_id = id }

\* C22: an Active tick spawns at most one incident per dataset, each naming
\* a dataset of the snapshot, at progress 0 and of one of the three
\* archetypes; the spawned incidents are in newIncidents only and leave the
\* tick's updatedDatasets, updatedIncidents and dcGenerated as a tick that
\* spawns nothing returns them.
SpawnedIncidentsFresh ==
    ActiveCall =>
        /\ Len(result.newIncidents) <= Len(input.datasets)
        /\ \A i \in 1..Len(input.datasets) :
              Cardinality(SpawnedOn(input.datasets[i].id)) <= 1
        /\ \A k \in 1..Len(result.newIncidents) :
              LET incident == result.newIncidents[k]
              IN  /\ \E i \in 1..Len(input.datasets) :
                        incident.dataset_id = input.datasets[i].id
                  /\ incident.resolution_progress = <<0, 1>>
                  /\ <<incident.type, incident.metric_impact,
                       incident.base_resolution_time, incident.halts_dc_generation>>
                        \in Archetypes
        /\ LET quiet == processTick(input, noRoll, noPick, idCounter)
           IN  /\ quiet.newIncidents = <<>>
               /\ quiet.updatedDatasets = result.updatedDatasets
               /\ quiet.updatedIncidents = result.updatedIncidents
               /\ quiet.dcGenerated = result.dcGenerated

\* C22 witness: a tick on two datasets that spawned one incident on each,
\* of two kinds, a halting pipeline failure among them
SpawnedIncidentsWitness ==
    /\ ActiveCall
    /\ Len(input.datasets) = 2
    /\ Len(result.newIncidents) = 2
    /\ result.newIncidents[1].dataset_id # result.newIncidents[2].dataset_id
    /\ result.newIncidents[1].type # result.newIncidents[2].type
    /\ \E k \in 1..2 : result.newIncidents[k].halts_dc_generation

\* the decay of a dataset with n upgrades installed, in hundredths of a
\* point: max(0.01, 0.1 - 0.01 * n)
DecayWith(n) == IF n >= 9 THEN 1 ELSE 10 - n

\* an Active call on a snapshot with no staff and no incident
BareCall == ActiveCall /\ input.staff = <<>> /\ input.activeIncidents = <<>>

\* C23: the effective decay is max(0.01, 0.1 - 0.01 * installed upgrades),
\* never below 0.01 and exactly 0.01 from nine upgrades on, so with no staff
\* and no incident every metric above 0 is lower after an Active tick and a
\* metric at 0 stays at 0.
DecayNeverStops ==
    /\ \A n \in 0..12 :
          LET upgraded == D1(M(10000, 10000, 10000))
              rate == effectiveDecayRate(
                        [upgraded EXCEPT !.pipelines_installed = [k \in 1..n |-> "p"]])
          IN  rate = DecayWith(n) /\ rate >= 1
    /\ BareCall =>
          \A i \in 1..Len(input.datasets) : \A m \in MetricNames :
              LET before == input.datasets[i].current_metrics[m]
                  after == result.updatedDatasets[i].current_metrics[m]
                  rate == DecayWith(Len(input.datasets[i].pipelines_installed))
              IN  /\ after = Max(0, before - rate)
                  /\ before > 0 => after < before
                  /\ before = 0 => after = 0

\* C23 witness: a dataset with more than nine upgrades lost exactly 0.01 of a
\* metric in a tick with no staff and no incident, while one of its metrics
\* stayed at 0
DecayNeverStopsWitness ==
    /\ BareCall
    /\ \E i \in 1..Len(input.datasets) :
          /\ Len(input.datasets[i].pipelines_installed) > 9
          /\ result.updatedDatasets[i].current_metrics.T
                = input.datasets[i].current_metrics.T - 1
          /\ input.datasets[i].current_metrics.C = 0
          /\ result.updatedDatasets[i].current_metrics.C = 0

\* the catch-up over s seconds of the snapshot handed to the latest call
CatchUp(s) ==
    calculateOfflineProgress(input, s, [i \in 1..Len(input.datasets) |-> <<1, 2>>],
                             [i \in 1..Len(input.datasets) |-> 1])

-----------------------------------------------------------------------------
(* The datasets a catch-up returns, checked under OfflineSpec *)

\* ceil(min(secondsElapsed, 86400) / 60)
BatchCount ==
    LET capped == IF secondsElapsed < 86400 THEN secondsElapsed ELSE 86400
    IN  IF capped % 60 = 0 THEN capped \div 60 ELSE capped \div 60 + 1

\* the datasets after n consecutive Active ticks with no incident and no event
RECURSIVE TicksFrom(_, _, _)
TicksFrom(datasetList, staffList, n) ==
    IF n = 0 THEN datasetList
    ELSE LET tick == processTick([input EXCEPT !.datasets = datasetList,
                                               !.staff = staffList,
                                               !.activeIncidents = <<>>,
                                               !.currentEvent = NULL],
                                 [i \in 1..Len(datasetList) |-> <<1, 2>>],
                                 [i \in 1..Len(datasetList) |-> 1], 0)
         IN  CHOOSE final \in
                { TicksFrom(next, staffList, n - 1) : next \in {tick.updatedDatasets} } :
                TRUE

\* C29: the catch-up runs the engine ceil(min(secondsElapsed, 86400) / 60)
\* times: finalDatasets are the datasets after that many consecutive Active
\* ticks with an empty incident list and no event, so decay and staff bonus
\* apply once per batch of 60 seconds.  The ticks are replayed for catch-ups
\* of up to five batches; with no staff every metric of any catch-up is its
\* start less the decay times the number of batches, floored at 0.
OfflineTicksPerBatch ==
    OfflineCalled =>
        /\ offline.batches = BatchCount
        /\ Len(offline.finalDatasets) = Len(input.datasets)
        /\ secondsElapsed <= 300 =>
              offline.finalDatasets = TicksFrom(input.datasets, input.staff, BatchCount)
        /\ input.staff = <<>> =>
              \A i \in 1..Len(input.datasets) : \A m \in MetricNames :
                  offline.finalDatasets[i].current_metrics[m] =
                      Max(0, input.datasets[i].current_metrics[m]
                              - BatchCount
                                  * DecayWith(Len(input.datasets[i].pipelines_installed)))
        /\ secondsElapsed = 0 => offline.finalDatasets = input.datasets
        /\ (secondsElapsed = 60 /\ input.staff = <<>>) =>
              \A i \in 1..Len(input.datasets) :
                  (/\ input.datasets[i].pipelines_installed = <<>>
                   /\ input.datasets[i].current_metrics.T = 10000) =>
                        offline.finalDatasets[i].current_metrics.T = 9990

\* C29 witness: 61 seconds offline with staff hired took two ticks, each
\* with its decay and its staff bonus
OfflineTicksPerBatchWitness ==
    /\ OfflineCalled
    /\ secondsElapsed = 61
    /\ offline.batches = 2
    /\ input.staff = <<sre, analyst>>
    /\ input.activeIncidents # <<>>
    /\ \E i \in 1..Len(input.datasets) :
          /\ input.datasets[i].current_metrics.T = 7605
          /\ offline.finalDatasets[i].current_metrics.T = 7595
          /\ offline.finalDatasets[i].current_metrics.A = 7580

-----------------------------------------------------------------------------
(* Claims about prestige, the dataset list and the catch-up of the store, *)
(* checked under Spec                                                      *)

\* a step of prestige(): refused with the state as it was, or the level
\* raised, the technologies kept and the rest back at its initial value
PrestigeResets ==
    lastOp'.op = "prestige" =>
        IF canPrestige(datasets, lifetimeDC)
        THEN /\ lastOp'.ok
             /\ prestigeLevel' = prestigeLevel + 1
             /\ unlockedTechnologies' = unlockedTechnologies
             /\ dc' = AInt(0)
             /\ lifetimeDC' = AInt(0)
             /\ datasets' = <<starterDataset>>
             /\ purchasedPipelines' = <<>>
             /\ staff' = <<>>
             /\ activeIncidents' = <<>>
             /\ currentEvent' = NULL
        ELSE ~lastOp'.ok /\ UNCHANGED storeState

\* the actions under which the prestige level is claimed never to decrease
LevelKeepingOps ==
    { "tick", "hireStaff", "unlockTechnology", "unlockDataset", "resolveEvent",
      "applyOfflineProgress", "prestige" }

\* C26: prestige() changes the state only when canPrestige holds of the
\* stored datasets and lifetimeDC; it then raises prestigeLevel by one, keeps
\* unlockedTechnologies and puts dc, lifetimeDC, datasets (the starter
\* alone), purchasedPipelines, staff, activeIncidents and currentEvent back
\* to their initial values; otherwise the whole state is unchanged.  The
\* level never decreases under tick, hireStaff, unlockTechnology,
\* unlockDataset, resolveEvent, applyOfflineProgress or prestige.
PrestigeKeepsTechnologies ==
    [][/\ PrestigeResets
       /\ lastOp'.op \in LevelKeepingOps => prestigeLevel' >= prestigeLevel]_vars

\* C26 witness: a prestige from level 1, as the second call on the store,
\* that kept the technology and left the starter dataset alone
PrestigeWitness ==
    /\ lastOp.op = "prestige"
    /\ lastOp.ok
    /\ prestigeLevel = 2
    /\ unlockedTechnologies = <<"tech-c">>
    /\ datasets = <<starterDataset>>
    /\ staff = <<>>
    /\ dc = AInt(0)
    /\ lastTickTime = 2

\* the ids of a dataset list, and whether no two of its datasets share one
Ids(datasetList) == { datasetList[i].id : i \in 1..Len(datasetList) }
NoDuplicate(datasetList) == Cardinality(Ids(datasetList)) = Len(datasetList)

\* the actions under which no dataset is claimed to be lost
DatasetKeepingOps ==
    { "tick", "hireStaff", "unlockTechnology", "unlockDataset", "resolveEvent",
      "applyOfflineProgress" }

\* a step of one of these actions loses no dataset id and creates no
\* duplicate, and unlockDataset of an id already present changes nothing
DatasetsKept ==
    /\ lastOp'.op \in DatasetKeepingOps =>
          /\ Ids(datasets) \subseteq Ids(datasets')
          /\ NoDuplicate(datasets) => NoDuplicate(datasets')
    /\ lastOp'.op = "unlockDataset" =>
          IF lastOp'.arg.id \in Ids(datasets)
          THEN UNCHANGED storeState
          ELSE datasets' = datasets \o <<lastOp'.arg>>

\* C27, as claimed: no dataset is lost and no duplicate created across tick,
\* hireStaff, unlockTechnology, unlockDataset, resolveEvent and
\* applyOfflineProgress, and only prestige and reset shrink the set of ids.
DatasetsLostOnlyByReset ==
    [][/\ DatasetsKept
       /\ Cardinality(Ids(datasets')) < Cardinality(Ids(datasets)) =>
              lastOp'.op \in {"prestige", "reset"}]_vars

\* C27, amended: the same, but a successful importSave also replaces the
\* dataset list, so prestige, reset and importSave can shrink the set of ids.
DatasetsLostOnlyByReplacement ==
    [][/\ DatasetsKept
       /\ Cardinality(Ids(datasets')) < Cardinality(Ids(datasets)) =>
              lastOp'.op \in {"prestige", "reset", "importSave"}]_vars

\* C27 witness: the catalog's dataset was unlocked next to the first one and
\* unlocking it again was refused
DatasetsKeptWitness ==
    /\ lastOp.op = "unlockDataset"
    /\ ~lastOp.ok
    /\ Len(datasets) = 2
    /\ NoDuplicate(datasets)
    /\ lastOp.arg.id \in Ids(datasets)

\* a catch-up has been applied to the game in the store
AppliedBefore == offline.ticksSimulated > 0

\* C30, as claimed: offline progress is applied at most once: once
\* applyOfflineProgress has been applied, a later call leaves the whole
\* store state unchanged, whatever tick, hireStaff, unlockTechnology,
\* unlockDataset or prestige happened in between; a call that is applied
\* adds dcEarned to dc and to lifetimeDC, stores finalDatasets and empties
\* activeIncidents.
OfflineAppliedOnce ==
    [][lastOp'.op = "applyOfflineProgress" =>
            IF AppliedBefore
            THEN UNCHANGED storeState
            ELSE /\ dc' = AAdd(dc, RInt(offline'.dcEarned))
                 /\ lifetimeDC' = AAdd(lifetimeDC, RInt(offline'.dcEarned))
                 /\ datasets' = offline'.finalDatasets
                 /\ activeIncidents' = <<>>]_vars

-----------------------------------------------------------------------------
(* Claims about useGameTick, checked under HookSpec *)

\* the last ten of the durations with one more appended
LastTen(durations, duration) ==
    LET pushed == durations \o <<duration>>
    IN  IF Len(pushed) > 10 THEN SubSeq(pushed, Len(pushed) - 9, Len(pushed))
        ELSE pushed

\* C24, as claimed: while the hook is mounted and not paused, every firing
\* of the 1000 ms interval calls onTick exactly once, then adds one to
\* totalTicks, records the duration among the last ten, and adds one to
\* slowTickCount and calls onSlowTick only when the duration is over 100 ms.
EveryFiringTicks ==
    [][hook'.firings = hook.firings + 1 =>
            \E duration \in Durations :
                /\ hook.mounted /\ ~hook.isPaused
                /\ hook'.onTickCalls = hook.onTickCalls + 1
                /\ hook'.totalTicksRef = hook.totalTicksRef + 1
                /\ hook'.performance.totalTicks = hook'.totalTicksRef
                /\ hook'.tickDurations = LastTen(hook.tickDurations, duration)
                /\ hook'.slowTickCountRef =
                      hook.slowTickCountRef + (IF duration > 100 THEN 1 ELSE 0)
                /\ hook'.onSlowTickCalls =
                      hook.onSlowTickCalls + (IF duration > 100 THEN 1 ELSE 0)]_vars

\* the timers alive are at most the one the ref holds, a 1000 ms one, and
\* none while the hook is paused or unmounted
OneTimer ==
    /\ Cardinality(hook.timers) <= 1
    /\ \A timer \in hook.timers :
          /\ timer.id = hook.intervalRef
          /\ timer.delay = 1000
          /\ timer.callbacks = hook.callbacks
    /\ (hook.isPaused \/ ~hook.mounted) => hook.timers = {} /\ hook.intervalRef = 0
    /\ (hook.mounted /\ ~hook.isPaused) => Cardinality(hook.timers) = 1

\* C25: across every sequence of pause, resume, change of a callback's
\* identity and unmount the hook keeps at most one interval timer alive;
\* once isPaused is true, or the hook is unmounted, no timer fires and onTick
\* is not called until the hook is resumed; a firing runs to its end before
\* anything stops the timer (each firing is one step).
AtMostOneTimer ==
    [][/\ OneTimer
       /\ OneTimer'
       /\ (hook.isPaused \/ ~hook.mounted) =>
             /\ hook'.firings = hook.firings
             /\ hook'.onTickCalls = hook.onTickCalls]_vars

\* C25 witness: the hook is paused with no timer left, after a timer fired
\* and after timers were stopped and started again
AtMostOneTimerWitness ==
    /\ hook.mounted
    /\ hook.isPaused
    /\ hook.timers = {}
    /\ hook.firings >= 2
    /\ hook.nextTimerId >= 4
    /\ hook.callbacks = 2

-----------------------------------------------------------------------------
(* Claims about what a tick leaves alone, checked under EngineSpec *)

\* a dataset with the three properties a tick rewrites taken from another one
WithTickFieldsOf(dataset, other) ==
    [dataset EXCEPT !.current_metrics = other.current_metrics,
                    !.currentSLA = other.currentSLA,
                    !.status = other.status]

\* the strictly increasing maps of 1..m into 1..n
Embeddings(m, n) ==
    { f \in [1..m -> 1..n] : \A i, j \in 1..m : i < j => f[i] < f[j] }

\* C40: an active processTick returns as many datasets as it was given, in
\* the same order, each equal to its input but for current_metrics,
\* currentSLA and status (so id, base_dc, volume, risk_rating, sla_targets
\* and pipelines_installed are the input's); and updatedIncidents is a
\* sub-sequence of the input incidents, each equal to the input incident it
\* comes from but for resolution_progress.
TickFrame ==
    ActiveCall =>
        /\ Len(result.updatedDatasets) = Len(input.datasets)
        /\ \A i \in 1..Len(input.datasets) :
                WithTickFieldsOf(result.updatedDatasets[i], input.datasets[i])
                    = input.datasets[i]
        /\ \E f \in Embeddings(Len(result.updatedIncidents), Len(input.activeIncidents)) :
                \A j \in 1..Len(result.updatedIncidents) :
                    [result.updatedIncidents[j] EXCEPT !.resolution_progress =
                        input.activeIncidents[f[j]].resolution_progress]
                        = input.activeIncidents[f[j]]

\* an active call given two datasets with pipelines installed and two
\* incidents that both survive it, which changed the metrics of a dataset
TickFrameWitness ==
    /\ ActiveCall
    /\ Len(input.datasets) = 2
    /\ Len(input.activeIncidents) = 2
    /\ Len(result.updatedIncidents) = 2
    /\ result.updatedIncidents[1].id # result.updatedIncidents[2].id
    /\ result.updatedDatasets[1].current_metrics # input.datasets[1].current_metrics
    /\ result.updatedDatasets[2].pipelines_installed # <<>>

-----------------------------------------------------------------------------
(* Claims about the currency and the paused game of the store, checked      *)
(* under Spec                                                              *)

\* the metrics of the datasets, in list order
MetricsOf(datasetList) ==
    [i \in 1..Len(datasetList) |-> datasetList[i].current_metrics]

ALeq(a, b) == a.whole < b.whole \/ (a.whole = b.whole /\ RLeq(a.frac, b.frac))
ASub(a, b) == RAdd(RInt(a.whole - b.whole), RAdd(a.frac, <<-b.frac[1], b.frac[2]>>))

\* the calls C33 ranges over
EarningOps ==
    { "tick", "hireStaff", "unlockTechnology", "unlockDataset", "resolveEvent",
      "applyOfflineProgress", "prestige" }

-----------------------------------------------------------------------------
(* Claims about the technologies and the staff of the store, checked under *)
(* Spec                                                                    *)

\* no identifier twice in a list of identifiers
Distinct(ids) == \A i, j \in 1..Len(ids) : ids[i] = ids[j] => i = j

\* every prerequisite of every unlocked technology is unlocked
PrerequisiteClosed(unlocked) ==
    \A tech \in TechCatalog :
        includes(unlocked, tech.id) =>
            \A i \in 1..Len(tech.requires) : includes(unlocked, tech.requires[i])

TechnologiesAndStaffSound ==
    /\ Distinct(unlockedTechnologies)
    /\ Distinct([i \in 1..Len(staff) |-> staff[i].id])
    /\ PrerequisiteClosed(unlockedTechnologies)

\* C35: unlockedTechnologies and staff never hold an id twice, every
\* prerequisite of an unlocked technology is unlocked, and an
\* unlockTechnology(tech) that succeeds was called with a technology that
\* getAvailableTechnologies lists for the technologies unlocked before it.
TechnologiesUnlockInOrder ==
    [][/\ TechnologiesAndStaffSound
       /\ TechnologiesAndStaffSound'
       /\ (lastOp'.op = "unlockTechnology" /\ lastOp'.ok) =>
                lastOp'.arg \in getAvailableTechnologies(unlockedTechnologies)]_vars

\* tech-b was unlocked after its prerequisite tech-a, with staff hired
TechnologiesUnlockWitness ==
    /\ lastOp.op = "unlockTechnology"
    /\ lastOp.ok
    /\ lastOp.arg.requires = <<"tech-a">>
    /\ unlockedTechnologies = <<"tech-a", "tech-b">>
    /\ staff # <<>>

-----------------------------------------------------------------------------
(* Claims about the notifications, checked under UISpec *)

\* the notification n is in the list
Listed(list, n) == \E i \in 1..Len(list) : list[i] = n

\* C36: a notification leaves the list only when the timeout set for it
\* fires, when dismissNotification is called with its id, or when
\* clearNotifications or reset is called: the timeout set for an earlier
\* notification never removes a later one, also after a reset that made the
\* ids start again at 1.
NotificationStays ==
    [][\A i \in 1..Len(ui.notifications) :
            LET n == ui.notifications[i]
            IN  ~Listed(ui'.notifications, n) =>
                    \/ lastOp'.op = "timeout" /\ lastOp'.arg = n.timestamp
                    \/ lastOp'.op = "dismissNotification" /\ lastOp'.arg = n.id
                    \/ lastOp'.op \in {"clearNotifications", "reset"}]_vars

-----------------------------------------------------------------------------
(* Claims about the delivery of ticks, checked under HookLiveSpec *)

\* C31: while the hook is mounted and not paused ticks keep being
\* delivered: from every such state onTick is eventually called again,
\* unless the hook is paused or unmounted first; re-renders with other
\* callbacks, each of which replaces the interval by a fresh one, do not
\* prevent it.
TicksKeepComing ==
    \A k \in 0..(MaxTimers - 1) :
        (hook.mounted /\ ~hook.isPaused /\ hook.onTickCalls = k)
            ~> (hook.onTickCalls > k \/ hook.isPaused \/ ~hook.mounted)

-----------------------------------------------------------------------------
(* Claims about the exported save, checked under SaveSpec *)

-----------------------------------------------------------------------------
(* Claims about the incidents the store keeps, checked under Spec *)

\* the incidents handed to the latest tick, each advanced by that tick
AdvancedByTick ==
    [k \in 1..Len(input.activeIncidents) |->
        [input.activeIncidents[k] EXCEPT
            !.resolution_progress = NextProgress(input.activeIncidents[k])]]

\* those of them that have not reached 1.0, in their order; the incidents as
\* they were when the tick found an event shown
BelowOne(incident) == RLess(incident.resolution_progress, <<1, 1>>)
SurvivorsOfTick ==
    IF input.currentEvent = NULL THEN SelectSeq(AdvancedByTick, BelowOne)
    ELSE input.activeIncidents

\* C37: in the state a tick() leaves, every stored incident has a
\* resolution_progress in [0, 1); the list is the incidents that survived
\* the tick, in their order, followed by the incidents the tick spawned; an
\* incident whose progress reached 1.0 is not in it.
StoredIncidentsOpen ==
    lastOp.op = "tick" =>
        /\ \A i \in 1..Len(activeIncidents) :
              /\ RLeq(<<0, 1>>, activeIncidents[i].resolution_progress)
              /\ RLess(activeIncidents[i].resolution_progress, <<1, 1>>)
        /\ activeIncidents = SurvivorsOfTick \o result.newIncidents
        /\ \A k \in 1..Len(input.activeIncidents) :
              (input.currentEvent = NULL
                    /\ RLeq(<<1, 1>>, NextProgress(input.activeIncidents[k]))) =>
                 \A i \in 1..Len(activeIncidents) :
                    activeIncidents[i].id # input.activeIncidents[k].id

\* a tick found the incident at 0.97, which reached 1.0 and is gone, and
\* stored the incident it spawned
StoredIncidentsWitness ==
    /\ lastOp.op = "tick"
    /\ input.currentEvent = NULL
    /\ input.activeIncidents = <<lateIncident>>
    /\ Len(result.newIncidents) = 1
    /\ activeIncidents = result.newIncidents

-----------------------------------------------------------------------------
(* Claims about the ticks an incident lasts, checked under ResolveSpec *)

\* the least n >= 1 with n * (1 / base_resolution_time) * speed >= 1, for an
\* incident that starts at progress 0
LeastTicks(base_resolution_time, speed) ==
    (base_resolution_time * speed[2] + speed[1] - 1) \div speed[1]

\* C38: an incident is removed after exactly the least n >= 1 active ticks
\* with p + n * (1 / base_resolution_time) * multiplier >= 1: a new incident
\* (p = 0) is still there before that many ticks and gone after them, with
\* no staff after base_resolution_time ticks.
ResolvedOnTime ==
    \A i \in 1..Len(sim.incidents) :
        sim.ticks < LeastTicks(sim.incidents[i].base_resolution_time,
                               resolutionSpeedMultiplier(sim.staff))

====
